---- MODULE Spec2Model ----
(***************************************************************************)
(* Session state machine of the PenQuest client (penquest_pkgs.game.Game), *)
(* its event bus (penquest_pkgs.utils.Handler.EventBasedObject) and the    *)
(* task structure of the inbound interpreter: one task per inbound message *)
(* plus the caller's task.  A task runs without preemption until it        *)
(* suspends in await_event (asyncio is cooperative), so every action below *)
(* is one run of a task from one suspension point to the next.             *)
(***************************************************************************)
EXTENDS Integers, Sequences, FiniteSets, TLC

VARIABLES
    phase,                \* Game.phase (GameStoragePhase)
    lobby,                \* Game.lobby
    actor_connection_id,  \* Game.actor_connection_id
    game_state,           \* Game.game_state (GameState)
    offer_received,       \* Game.offer_received
    interaction_buffer,   \* Game.interaction_buffer (asyncio.Queue)
    event_listener,       \* EventBasedObject.event_listener: the await_event listeners
    caller,               \* where the caller's task stands
    started,              \* number of tasks started: messages read and calls made
    listening_job,        \* GameInputInterpreter.listening_job (listen_to_messages)
    observed,             \* the GameState object the caller read from Game.game_state
    last                  \* observation of the step just taken

vars == <<phase, lobby, actor_connection_id, game_state, offer_received,
          interaction_buffer, event_listener, caller, started, listening_job,
          observed, last>>

-----------------------------------------------------------------------------
(* Bounds of the model *)

\* the number of tasks a run starts: inbound messages read by the interpreter
\* and operations called by the caller
MaxStarted == 5

-----------------------------------------------------------------------------
(* Enumerations and constants of the program *)

GameStoragePhase == {"Start", "Lobby", "Running", "Ended"}

\* the values of the enumeration, which Input.error compares
GameStoragePhaseValue ==
    [p \in GameStoragePhase |->
        CASE p = "Start" -> 0 [] p = "Lobby" -> 1 [] p = "Running" -> 2
          [] p = "Ended" -> 3]

GameInteractionType ==
    {"CREATE_OR_JOIN_LOBBY", "CHANGE_LOBBY_PROPERTIES", "PLAYER_READY",
     "SHOPPING_PHASE", "PLAY_CARD", "CHOOSE_ACTION", "END"}

\* GAME_PHASE_MAP: the phase names of the wire protocol
GAME_PHASE_MAP ==
    [Starting |-> 0, InitDraw |-> 1, Shopping |-> 2, Attack |-> 3,
     Defense |-> 4, Ended |-> 5]

\* ExternalGamePhase: Starting 0, InitDraw 1, Attacker 3, Defender 4, Ended 5
ExternalGamePhase == {0, 1, 3, 4, 5}
Starting == 0
InitDraw == 1
Attacker == 3
Defender == 4

InternalGamePhase == {"Idle", "Shopping", "Playing"}

None == "None"

-----------------------------------------------------------------------------
(* Values the server sends *)

ConnIds == {"c1", "c2"}
MaxPlayers == 2
NoScenario == None
LobbyScenarios == {NoScenario, "s1"}
Slots == {1, 2}
NoPlayer == None
ThePlayer == "p1"

\* the empty slot -> player dict
NoPlayers == [s \in Slots |-> NoPlayer]

NoLobby ==
    [exists |-> FALSE, code |-> None, scenario |-> NoScenario,
     players |-> NoPlayers, equipment_shop_mode |-> 0]

\* a Lobby as map_message2model builds it from a lobby_info message
LobbyOf(code, scenario, mode) ==
    [exists |-> TRUE, code |-> code, scenario |-> scenario,
     players |-> NoPlayers, equipment_shop_mode |-> mode]

\* the lobby_info messages: a lobby with a scenario and the equipment shop, one
\* with a scenario and no shop, and one without a scenario
LobbyMessages ==
    {LobbyOf("ABCD", "s1", 1), LobbyOf("WXYZ", "s1", 0), LobbyOf("ABCD", NoScenario, 0)}

\* an Actor (role) of a game message: its type and the cards and assets it carries
NoRole ==
    [exists |-> FALSE, type |-> None, visible_assets |-> <<>>, assets |-> <<>>,
     actions |-> <<>>, equipment |-> <<>>]

RoleOf(type) ==
    [exists |-> TRUE, type |-> type,
     visible_assets |-> IF type = "attacker" THEN <<1>> ELSE <<>>,
     assets |-> IF type = "defender" THEN <<1, 2>> ELSE <<>>,
     actions |-> <<7>>,
     equipment |-> <<>>]

\* the empty roles dict, and the dicts of the game messages
NoRoles == [c \in ConnIds |-> NoRole]

\* the roles dict of a game message: the connection "c1" plays the role
RolesOf(type) == [c \in ConnIds |-> IF c = "c1" THEN RoleOf(type) ELSE NoRole]

\* the Game messages (game_started): "c1" attacks or defends in scenario "s1",
\* or the game is one of another scenario
GameMessages ==
    {[scenario_id |-> "s1", roles |-> RolesOf("attacker"), amount_selection |-> 0],
     [scenario_id |-> "s1", roles |-> RolesOf("defender"), amount_selection |-> 1],
     [scenario_id |-> "s2", roles |-> RolesOf("attacker"), amount_selection |-> 0]}

\* the phase names of the game_phase_changed messages
GamePhaseNames == {"InitDraw", "Attack", "Defense"}

\* the cards of an actions_received message and of an offer_selection message
TurnValues == {1, 2}
NewActions == <<9>>

\* the assets of the asset_changed and asset_changes messages: one that the
\* roles put on the board and one that they do not
AssetIds == {1, 3}
AssetLists == {<<>>, <<1>>, <<3>>}
OfferedActions == <<9>>

-----------------------------------------------------------------------------
(* The GameState dataclass: NoGameState stands for None *)

NoGameState ==
    [exists |-> FALSE, name |-> None, scenario |-> NoScenario,
     actor_connection_id |-> None, turn |-> 1,
     external_phase |-> Starting, internal_phase |-> "Idle",
     end_state |-> None, roles |-> NoRoles, players |-> <<>>,
     hand |-> <<>>, equipment |-> <<>>,
     assets_on_board |-> <<>>, selection_choices |-> <<>>, selection_amount |-> 0]

\* GameState(...): the fields a constructor call leaves out take their defaults
GameState(name, scenario, conn, amount) ==
    [NoGameState EXCEPT !.exists = TRUE, !.name = name, !.scenario = scenario,
                        !.actor_connection_id = conn, !.selection_amount = amount]

\* The GameState object the caller holds: hand and board are what the object
\* held when the caller read it, reads_hand and reads_board what its list
\* attributes read now; shared tells that these lists are still the lists of the
\* session's snapshot (dataclasses.replace copies the references, not the lists).
NotObserved ==
    [exists |-> FALSE, shared |-> FALSE, hand |-> <<>>, board |-> <<>>,
     reads_hand |-> <<>>, reads_board |-> <<>>]

-----------------------------------------------------------------------------
(* The event bus: EventBasedObject *)

GAME_STORAGE_PHASE_CHANGED == "game_storage_phase_changed"
LOBBY_CHANGED == "lobby_changed"
SCENARIO_CHANGED == "scenario_changed"
GAME_OPTIONS_CHANGED == "game_options_changed"
PLAYERS_CHANGED == "players_changed"
BOARD_CHANGED == "board_changed"
HAND_CHANGED == "hand_changed"
EQUIPMENT_CHANGED == "equipment_changed"
PLAYER_ROLE_CHANGED == "player_role_changed"
GAME_PHASE_CHANGED == "game_phase_changed"
SELECTION_OFFER_CHANGED == "selection_offer_changed"
GAME_STARTED == "game_started"
GAME_ENDED == "game_ended"
ALL_ACTIONS_PLAYABLE == "all_actions_playable"
PLAY_ACTION_REPLY == "play_action_reply"
CONNECTION_ID_RECEIVED == "connection_id_received"
GAME_LEFT == "game_left"

\* the events awaited and published, and the payloads, of the event bus alone
AwaitedNames == {{LOBBY_CHANGED}, {SCENARIO_CHANGED}, {LOBBY_CHANGED, SCENARIO_CHANGED}}

PublishedNames == {LOBBY_CHANGED, SCENARIO_CHANGED, GAME_STARTED}

Payloads == {"d1", "d2"}

DefaultReturn == "default"

\* The task that owns an await_event listener: the coroutine it is suspended in
\* (kind), the await it stands at (step) and the arguments it still needs.
Task(kind, step, s, f) == [kind |-> kind, step |-> step, s |-> s, f |-> f]

CallerOps ==
    {"create_new_lobby", "play_action", "get_valid_actions", "next_interaction_type",
     "request_connection_id", "change_slot", "wait_for_players", "leave_game"}

\* The state a task works on while it runs, with what it published (ev), what
\* it sent (sent), the exception that ended it (err) and whether it suspended.
Machine ==
    [phase |-> phase, lobby |-> lobby, conn |-> actor_connection_id,
     gs |-> game_state, offer |-> offer_received, buf |-> interaction_buffer,
     ls |-> event_listener, ev |-> <<>>, sent |-> <<>>, err |-> "none",
     susp |-> FALSE, ret |-> None]

\* the task is still running: it neither raised nor suspended
Live(m) == m.err = "none" /\ ~m.susp

raise(m, e) == IF Live(m) THEN [m EXCEPT !.err = e] ELSE m

\* await_event's listener called with an event: it declines an event it does not
\* await; otherwise reply.set_result, which raises InvalidStateError on a future
\* that already holds a result, and it claims the event.
listener(l, event, data) ==
    IF event \notin l.events
    THEN [finished |-> FALSE, ret |-> None, raised |-> FALSE, l |-> l]
    ELSE IF l.done THEN [finished |-> FALSE, ret |-> None, raised |-> TRUE, l |-> l]
    ELSE [finished |-> TRUE, ret |-> None, raised |-> FALSE,
          l |-> [l EXCEPT !.done = TRUE, !.data = data]]

\* dispatch_event delivering to every listener that awaits the event
RECURSIVE run_all_listeners(_, _, _, _)
run_all_listeners(ls, i, event, data) ==
    IF i > Len(ls) THEN [ls |-> ls, raised |-> FALSE, finished |-> FALSE, ret |-> None]
    ELSE LET r == listener(ls[i], event, data) IN
         IF r.raised
         THEN [ls |-> ls, raised |-> TRUE, finished |-> FALSE, ret |-> None]
         ELSE LET rest == run_all_listeners([ls EXCEPT ![i] = r.l], i + 1, event, data)
              IN [rest EXCEPT !.finished = @ \/ r.finished]

\* dispatch_event over the listeners from index i on: the first listener that
\* claims the event ends the loop, an exception of a listener leaves it
RECURSIVE run_listeners(_, _, _, _)
run_listeners(ls, i, event, data) ==
    IF i > Len(ls) THEN [ls |-> ls, raised |-> FALSE, finished |-> FALSE, ret |-> None]
    ELSE LET r == listener(ls[i], event, data) IN
         IF r.raised
         THEN [ls |-> ls, raised |-> TRUE, finished |-> FALSE, ret |-> None]
         ELSE IF r.finished
         THEN [ls |-> [ls EXCEPT ![i] = r.l], raised |-> FALSE, finished |-> TRUE,
               ret |-> r.ret]
         ELSE run_listeners(ls, i + 1, event, data)

\* dispatch_event with the value it returns to the publisher: the result of the
\* claiming listener, or default_return when no listener claims the event
dispatch_event_result(m, event, data, default_return) ==
    IF ~Live(m) THEN m
    ELSE LET r == run_listeners(m.ls, 1, event, data) IN
         IF r.raised THEN [m EXCEPT !.err = "InvalidStateError"]
         ELSE [m EXCEPT !.ls = r.ls, !.ev = Append(@, event),
                        !.ret = IF r.finished THEN r.ret ELSE default_return]

\* dispatch_event awaited for its effect: the session's own publications ignore
\* the value returned
dispatch_event(m, event, data) ==
    IF ~Live(m) THEN m
    ELSE [dispatch_event_result(m, event, data, None) EXCEPT !.ret = m.ret]

\* dispatch_command: a SEND event, which the outbound interpreter's listener
\* claims and writes to the transport; no await_event listener awaits SEND
dispatch_command(m, command) ==
    IF ~Live(m) THEN m ELSE [m EXCEPT !.sent = Append(@, command)]

\* await_event up to its suspension: the listener is appended and the task waits
await_event(m, task, events) ==
    IF ~Live(m) THEN m
    ELSE [m EXCEPT !.ls = Append(@, [task |-> task, events |-> events, done |-> FALSE,
                                     data |-> None]),
                   !.susp = TRUE]

put_nowait(m, interaction) ==
    IF ~Live(m) THEN m ELSE [m EXCEPT !.buf = Append(@, interaction)]

\* event_listener.remove taking out every listener that looks like the i-th
remove_all_alike(seq, i) == SelectSeq(seq, LAMBDA x : x # seq[i])

\* the sequence without its i-th element (event_listener.remove(listener))
RemoveAt(seq, i) == SubSeq(seq, 1, i - 1) \o SubSeq(seq, i + 1, Len(seq))

-----------------------------------------------------------------------------
(* Game: helpers *)

\* dict.get(connection_id, None) on the roles dict
RoleGet(roles, c) == IF c \in ConnIds THEN roles[c] ELSE NoRole

get_player_role(gs) ==
    IF ~gs.exists THEN NoRole ELSE RoleGet(gs.roles, gs.actor_connection_id)

\* _is_my_turn raises outside Running and Ended and without a game state
is_my_turn_raises(m) ==
    m.phase \notin {"Running", "Ended"} \/ ~m.gs.exists

\* a variant of is_my_turn in which either role acts in both phases
is_my_turn_of_any_role(gs, current_phase) ==
    get_player_role(gs).exists /\ current_phase \in {Attacker, Defender}

\* the value _is_my_turn returns when it does not raise
is_my_turn(gs, current_phase) ==
    LET role == get_player_role(gs) IN
    IF ~role.exists THEN FALSE
    ELSE IF current_phase \notin {Attacker, Defender} THEN FALSE
    ELSE \/ (role.type = "attacker" /\ current_phase = Attacker)
         \/ (role.type = "defender" /\ current_phase = Defender)

\* _await_correct_game_storage_phase: one test of the loop; a task that finds a
\* wrong phase awaits GAME_STORAGE_PHASE_CHANGED and tests again when it resumes
await_correct_game_storage_phase(m, task, correct_phases) ==
    IF ~Live(m) \/ m.phase \in correct_phases THEN m
    ELSE await_event(m, task, {GAME_STORAGE_PHASE_CHANGED})

\* list.append(x) unless x is in the list (Asset.__eq__ compares ids)
RECURSIVE append_missing(_, _)
append_missing(board, assets) ==
    IF assets = <<>> THEN board
    ELSE LET a == Head(assets) IN
         append_missing(IF \E i \in 1..Len(board) : board[i] = a THEN board
                        ELSE Append(board, a), Tail(assets))

\* scenario != scenario between the lobby's ScenarioTeaser and the message's: the
\* two are objects of different dataclasses, which compare unequal; None equals None
scenario_differs(old, new) == ~(old = NoScenario /\ new = NoScenario)

-----------------------------------------------------------------------------
(* Game.Input: the handlers of the inbound messages *)

set_connection_id(m, connectionId) ==
    LET m1 == [m EXCEPT !.conn = connectionId,
                        !.gs = IF m.gs.exists
                               THEN [m.gs EXCEPT !.actor_connection_id = connectionId]
                               ELSE m.gs]
    IN dispatch_event(m1, CONNECTION_ID_RECEIVED, None)

set_lobby_information(m, lobbyMsg) ==
    IF m.phase \notin {"Start", "Lobby"} THEN raise(m, "RuntimeError")
    ELSE LET scenario_changed ==
                 m.lobby.exists /\ scenario_differs(m.lobby.scenario, lobbyMsg.scenario)
             m1 == [m EXCEPT !.lobby = lobbyMsg, !.phase = "Lobby"]
             m2 == dispatch_event(m1, LOBBY_CHANGED, None)
             m3 == dispatch_event(m2, GAME_STORAGE_PHASE_CHANGED, None)
         IN IF scenario_changed THEN dispatch_event(m3, SCENARIO_CHANGED, None) ELSE m3

set_lobby_player_information_for_slot(m, player, slot) ==
    IF m.phase # "Lobby" THEN raise(m, "RuntimeError")
    ELSE IF ~(slot >= 1) THEN raise(m, "RuntimeError")
    ELSE IF ~m.lobby.exists THEN raise(m, "RuntimeError")
    ELSE dispatch_event([m EXCEPT !.lobby.players[slot] = player],
                        PLAYERS_CHANGED, None)

remove_player(m, slot) ==
    IF ~(slot >= 1) THEN raise(m, "RuntimeError")
    ELSE IF ~m.lobby.exists THEN raise(m, "RuntimeError")
    ELSE IF m.lobby.players[slot] = NoPlayer THEN raise(m, "KeyError")
    ELSE [m EXCEPT !.lobby.players[slot] = NoPlayer]

set_scenario(m, scenario) ==
    IF m.phase # "Lobby" THEN raise(m, "RuntimeError")
    ELSE IF ~m.lobby.exists THEN raise(m, "AttributeError")
    ELSE dispatch_event([m EXCEPT !.lobby.scenario = scenario], SCENARIO_CHANGED, None)

changed_slots(m, new_slot, old_slot) ==
    IF m.phase # "Lobby" THEN raise(m, "RuntimeError")
    ELSE IF ~m.lobby.exists THEN raise(m, "AttributeError")
    ELSE IF m.lobby.players[old_slot] = NoPlayer THEN raise(m, "KeyError")
    ELSE LET moved == [m.lobby.players EXCEPT ![new_slot] = m.lobby.players[old_slot]]
             m1 == [m EXCEPT !.lobby.players = [moved EXCEPT ![old_slot] = NoPlayer]]
         IN dispatch_event(m1, PLAYERS_CHANGED, None)

update_game_options(m, mode) ==
    IF m.phase # "Lobby" \/ ~m.lobby.exists THEN raise(m, "RuntimeError")
    ELSE dispatch_event([m EXCEPT !.lobby.equipment_shop_mode = mode],
                        GAME_OPTIONS_CHANGED, None)

set_players_and_roles(m, roles) ==
    IF ~Live(m) THEN m
    ELSE IF m.phase # "Running" THEN raise(m, "RuntimeError")
    ELSE IF ~m.gs.exists THEN raise(m, "RuntimeError")
    ELSE IF m.gs.actor_connection_id = None THEN raise(m, "RuntimeError")
    ELSE IF ~RoleGet(roles, m.gs.actor_connection_id).exists THEN raise(m, "RuntimeError")
    ELSE LET m1 == [m EXCEPT !.gs.roles = roles]
             role == get_player_role(m1.gs)
             visible == append_missing(m1.gs.assets_on_board, role.visible_assets)
             board == IF role.type = "defender"
                      THEN append_missing(visible, role.assets) ELSE visible
             m2 == dispatch_event([m1 EXCEPT !.gs.assets_on_board = board],
                                  BOARD_CHANGED, None)
             m3 == dispatch_event([m2 EXCEPT !.gs.hand = @ \o role.actions],
                                  HAND_CHANGED, None)
             m4 == dispatch_event([m3 EXCEPT !.gs.equipment = @ \o role.equipment],
                                  EQUIPMENT_CHANGED, None)
         IN dispatch_event(m4, PLAYER_ROLE_CHANGED, None)

\* a variant of start_game that does not look for the local role in the game
start_game_without_role_check(m, game) ==
    IF m.phase # "Lobby" THEN raise(m, "RuntimeError")
    ELSE IF ~m.lobby.exists THEN raise(m, "RuntimeError")
    ELSE IF m.lobby.scenario = NoScenario \/ m.lobby.scenario # game.scenario_id
         THEN raise(m, "RuntimeError")
    ELSE IF m.conn = None THEN raise(m, "RuntimeError")
    ELSE LET m1 == [m EXCEPT !.gs = GameState(m.lobby.code, m.lobby.scenario, m.conn,
                                              game.amount_selection),
                             !.phase = "Running"]
             m2 == dispatch_event(m1, GAME_STORAGE_PHASE_CHANGED, None)
             m3 == set_players_and_roles(m2, game.roles)
         IN dispatch_event(m3, GAME_STARTED, None)

start_game(m, game) ==
    IF m.phase # "Lobby" THEN raise(m, "RuntimeError")
    ELSE IF ~m.lobby.exists THEN raise(m, "RuntimeError")
    ELSE IF m.lobby.scenario = NoScenario \/ m.lobby.scenario # game.scenario_id
         THEN raise(m, "RuntimeError")
    ELSE IF m.conn = None THEN raise(m, "RuntimeError")
    ELSE IF ~RoleGet(game.roles, m.conn).exists THEN raise(m, "RuntimeError")
    ELSE LET m1 == [m EXCEPT !.gs = GameState(m.lobby.code, m.lobby.scenario, m.conn,
                                              game.amount_selection),
                             !.phase = "Running"]
             m2 == dispatch_event(m1, GAME_STORAGE_PHASE_CHANGED, None)
             m3 == set_players_and_roles(m2, game.roles)
         IN dispatch_event(m3, GAME_STARTED, None)

\* a variant of interaction_type that does not look at the turn
interaction_type_of_first_turn(game_phase, my_turn, internal_phase, turn, shop_mode) ==
    IF game_phase = InitDraw THEN "CHOOSE_ACTION"
    ELSE IF my_turn
         THEN IF internal_phase = "Shopping" /\ shop_mode > 0
              THEN "SHOPPING_PHASE" ELSE "PLAY_CARD"
         ELSE None

\* set_game_phase's choice of the next interaction (None: no interaction)
interaction_type(game_phase, my_turn, internal_phase, turn, shop_mode) ==
    IF game_phase = InitDraw THEN "CHOOSE_ACTION"
    ELSE IF my_turn
         THEN IF turn = 1
              THEN IF internal_phase = "Shopping" /\ shop_mode > 0
                   THEN "SHOPPING_PHASE" ELSE "PLAY_CARD"
              ELSE "CHOOSE_ACTION"
         ELSE None

\* set_game_phase from the test of the storage phase on (also where it resumes)
set_game_phase(m, game_phase) ==
    LET m0 == await_correct_game_storage_phase(
                  m, Task("set_game_phase", 0, game_phase, FALSE), {"Running", "Ended"})
    IN
    IF ~Live(m0) THEN m0
    ELSE IF ~m0.gs.exists THEN raise(m0, "RuntimeError")
    ELSE IF game_phase \notin DOMAIN GAME_PHASE_MAP THEN raise(m0, "ValueError")
    ELSE IF GAME_PHASE_MAP[game_phase] \notin ExternalGamePhase THEN raise(m0, "ValueError")
    ELSE IF is_my_turn_raises(m0) THEN raise(m0, "RuntimeError")
    ELSE LET phase_value == GAME_PHASE_MAP[game_phase]
             my_turn == is_my_turn(m0.gs, phase_value)
             internal_phase == IF my_turn THEN "Shopping" ELSE "Idle"
             m1 == dispatch_event(
                       [m0 EXCEPT !.gs.external_phase = phase_value,
                                  !.gs.internal_phase = internal_phase],
                       GAME_PHASE_CHANGED, None)
             it == interaction_type(phase_value, my_turn, internal_phase, m1.gs.turn,
                                    m1.lobby.equipment_shop_mode)
         IN IF it # None THEN put_nowait(m1, it) ELSE m1

\* a variant of add_new_actions_to_hand that does not look at the equipment shop
add_new_actions_to_hand_without_shop(m, new_actions) ==
    LET m0 == await_correct_game_storage_phase(
                  m, Task("add_new_actions_to_hand", 0, None, FALSE),
                  {"Running", "Ended"})
    IN
    IF ~Live(m0) THEN m0
    ELSE IF ~m0.gs.exists THEN raise(m0, "RuntimeError")
    ELSE LET m1 == dispatch_event([m0 EXCEPT !.gs.hand = @ \o new_actions],
                                  HAND_CHANGED, None)
         IN IF ~Live(m1) THEN m1
            ELSE IF is_my_turn_raises(m1) THEN raise(m1, "RuntimeError")
            ELSE IF is_my_turn(m1.gs, m1.gs.external_phase)
                 THEN put_nowait(m1, "PLAY_CARD")
                 ELSE m1

add_new_actions_to_hand(m, new_actions) ==
    LET m0 == await_correct_game_storage_phase(
                  m, Task("add_new_actions_to_hand", 0, None, FALSE),
                  {"Running", "Ended"})
    IN
    IF ~Live(m0) THEN m0
    ELSE IF ~m0.gs.exists THEN raise(m0, "RuntimeError")
    ELSE LET m1 == dispatch_event([m0 EXCEPT !.gs.hand = @ \o new_actions],
                                  HAND_CHANGED, None)
         IN IF ~Live(m1) THEN m1
            ELSE IF is_my_turn_raises(m1) THEN raise(m1, "RuntimeError")
            ELSE IF is_my_turn(m1.gs, m1.gs.external_phase)
                 THEN IF m1.lobby.equipment_shop_mode > 0
                      THEN put_nowait(m1, "SHOPPING_PHASE")
                      ELSE put_nowait(m1, "PLAY_CARD")
                 ELSE m1

game_turn_changed(m, currentTurn) ==
    LET m0 == await_correct_game_storage_phase(
                  m, Task("game_turn_changed", currentTurn, None, FALSE), {"Running"})
    IN
    IF ~Live(m0) THEN m0
    ELSE IF ~m0.gs.exists THEN raise(m0, "TypeError")
    ELSE [m0 EXCEPT !.gs.turn = currentTurn, !.offer = FALSE]

set_received_offering(m, actions, amount_selection) ==
    LET m0 == await_correct_game_storage_phase(
                  m, Task("set_received_offering", amount_selection, None, FALSE),
                  {"Running"})
    IN
    IF ~Live(m0) THEN m0
    ELSE IF ~m0.gs.exists THEN raise(m0, "RuntimeError")
    ELSE dispatch_event([m0 EXCEPT !.gs.selection_amount = amount_selection,
                                   !.gs.selection_choices = actions,
                                   !.offer = TRUE],
                        SELECTION_OFFER_CHANGED, None)

set_all_actions_playable(m, playable_results) ==
    LET m0 == await_correct_game_storage_phase(
                  m, Task("set_all_actions_playable", 0, playable_results, FALSE),
                  {"Running"})
    IN
    IF ~Live(m0) THEN m0
    ELSE IF ~m0.gs.exists THEN raise(m0, "RuntimeError")
    ELSE dispatch_event(m0, ALL_ACTIONS_PLAYABLE, playable_results)

played_action_reply(m, successful) ==
    LET m0 == await_correct_game_storage_phase(
                  m, Task("played_action_reply", 0, successful, FALSE), {"Running"})
    IN
    IF ~Live(m0) THEN m0
    ELSE IF ~m0.gs.exists THEN raise(m0, "RuntimeError")
    ELSE dispatch_event(m0, PLAY_ACTION_REPLY, successful)

game_ended(m, endState) ==
    IF ~m.gs.exists THEN raise(m, "RuntimeError")
    ELSE LET m1 == dispatch_event([m EXCEPT !.phase = "Ended"],
                                  GAME_STORAGE_PHASE_CHANGED, None)
             m2 == IF Live(m1) THEN [m1 EXCEPT !.gs.end_state = endState] ELSE m1
             m3 == dispatch_event(m2, GAME_ENDED, None)
         IN put_nowait(m3, "END")

\* _reveal_asset appending the asset whatever the board holds
reveal_asset_unchecked(m, asset) ==
    IF ~Live(m) THEN m
    ELSE IF ~m.gs.exists THEN raise(m, "RuntimeError")
    ELSE [m EXCEPT !.gs.assets_on_board = Append(@, asset)]

\* _reveal_asset: the asset is appended to the board unless the board holds an
\* asset equal to it (Asset.__eq__ compares ids)
reveal_asset(m, asset) ==
    IF ~Live(m) THEN m
    ELSE IF ~m.gs.exists THEN raise(m, "RuntimeError")
    ELSE IF \E i \in DOMAIN m.gs.assets_on_board : m.gs.assets_on_board[i] = asset
         THEN m
    ELSE [m EXCEPT !.gs.assets_on_board = Append(@, asset)]

\* _hide_asset doing nothing for an asset that is not on the board
hide_asset_if_present(m, asset_id) ==
    IF ~Live(m) THEN m
    ELSE IF ~m.gs.exists THEN raise(m, "RuntimeError")
    ELSE [m EXCEPT !.gs.assets_on_board = SelectSeq(@, LAMBDA a : a # asset_id)]

\* _hide_asset: the one asset of that id is popped from the board; no asset, or
\* more than one, of that id is an error
hide_asset(m, asset_id) ==
    IF ~Live(m) THEN m
    ELSE IF ~m.gs.exists THEN raise(m, "RuntimeError")
    ELSE LET list_index == {i \in DOMAIN m.gs.assets_on_board :
                               m.gs.assets_on_board[i] = asset_id}
         IN IF Cardinality(list_index) = 0 THEN raise(m, "RuntimeError")
            ELSE IF Cardinality(list_index) > 1 THEN raise(m, "RuntimeError")
            ELSE [m EXCEPT !.gs.assets_on_board =
                               RemoveAt(@, CHOOSE i \in list_index : TRUE)]

RECURSIVE reveal_assets(_, _)
reveal_assets(m, revealed) ==
    IF revealed = <<>> THEN m
    ELSE reveal_assets(reveal_asset(m, Head(revealed)), Tail(revealed))

RECURSIVE hide_assets(_, _)
hide_assets(m, hidden) ==
    IF hidden = <<>> THEN m
    ELSE hide_assets(hide_asset(m, Head(hidden)), Tail(hidden))

\* update_assets (asset_changes): the revealed assets, then the hidden ids
update_assets(m, asset_changes) ==
    LET m0 == await_correct_game_storage_phase(
                  m, Task("update_assets", 0, asset_changes, FALSE), {"Running"})
    IN hide_assets(reveal_assets(m0, asset_changes.revealed), asset_changes.hidden)

\* update_asset (asset_changed): an asset on the board is replaced by the
\* message's; the board is read without a test of the snapshot
update_asset(m, asset) ==
    LET m0 == await_correct_game_storage_phase(
                  m, Task("update_asset", 0, asset, FALSE), {"Running", "Ended"})
    IN
    IF ~Live(m0) THEN m0
    ELSE IF ~m0.gs.exists THEN raise(m0, "AttributeError")
    ELSE IF \E i \in DOMAIN m0.gs.assets_on_board : m0.gs.assets_on_board[i] = asset
         THEN reveal_asset(hide_asset(m0, asset), asset)
    ELSE m0

\* update_game_state (game_state): the constructor call names a field (phase)
\* that GameState does not have and leaves out name and scenario, which have no
\* default: the call raises TypeError and the snapshot stays as it is
update_game_state(m, game) ==
    LET m0 == await_correct_game_storage_phase(
                  m, Task("update_game_state", 0, game, FALSE), {"Running"})
    IN
    IF ~Live(m0) THEN m0
    ELSE IF m0.conn = None \/ ~RoleGet(game.roles, m0.conn).exists
         THEN raise(m0, "RuntimeError")
    ELSE raise(m0, "TypeError")

\* close: the close signal (a SEND event without a command) goes to the
\* transport, and the caller is told that the session is over
close(m) ==
    IF ~Live(m) THEN m
    ELSE put_nowait([m EXCEPT !.sent = Append(@, None)], "END")

\* Input.update_player: the connection id of the message's player becomes the
\* session's; then 'self.game.lobby.items()' on a Lobby, a dataclass without
\* items, raises AttributeError as soon as a lobby exists
update_player(m, connection_id) ==
    LET m1 == [m EXCEPT !.conn = connection_id]
    IN IF m.lobby.exists THEN raise(m1, "AttributeError") ELSE m1

\* the list of players without the first player of a connection id; a player is
\* its connection id
RECURSIVE pop_player(_, _)
pop_player(players, connection_id) ==
    IF players = <<>> THEN <<>>
    ELSE IF Head(players) = connection_id THEN Tail(players)
    ELSE <<Head(players)>> \o pop_player(Tail(players), connection_id)

\* the position (from 0) of the first player of a connection id, Len(players)
\* when there is none
RECURSIVE player_idx(_, _)
player_idx(players, connection_id) ==
    IF players = <<>> \/ Head(players) = connection_id THEN 0
    ELSE 1 + player_idx(Tail(players), connection_id)

\* Input.game_player_changed: the session's connection id follows the change of
\* its own player; the player replaces, in the list of the snapshot, the player
\* of the old connection id, or is appended. Without a snapshot
\* 'self.game.game_state.players' raises AttributeError.
game_player_changed(m, new_connection_id, old_connection_id, player) ==
    LET m1 == IF m.conn = old_connection_id
              THEN [m EXCEPT !.conn = new_connection_id] ELSE m
        idx == player_idx(m.gs.players, old_connection_id)
        rest == pop_player(m.gs.players, old_connection_id)
    IN IF ~m.gs.exists THEN raise(m1, "AttributeError")
       ELSE [m1 EXCEPT !.gs.players =
                SubSeq(rest, 1, idx) \o <<player>> \o SubSeq(rest, idx + 1, Len(rest))]

\* Input.got_kicked: 'self.game.close()' makes the coroutine of close and drops
\* it without awaiting it, so nothing of close runs
got_kicked(m) == m

\* Input.error leaving and closing whatever the phase
error_in_any_phase(m) == close(dispatch_command(m, "leave_game"))

\* Input.error: the errors are logged; past Start the session leaves the game
\* and closes
error(m) ==
    IF GameStoragePhaseValue[m.phase] > GameStoragePhaseValue["Start"]
    THEN close(dispatch_command(m, "leave_game"))
    ELSE m

-----------------------------------------------------------------------------
(* Game: the operations of the caller *)

\* create_new_lobby after its awaits: the phase is set and the caller is asked
\* for the lobby properties and its readiness
create_new_lobby_finish(m) ==
    LET m1 == dispatch_event([m EXCEPT !.phase = "Lobby"],
                             GAME_STORAGE_PHASE_CHANGED, None)
    IN put_nowait(put_nowait(m1, "CHANGE_LOBBY_PROPERTIES"), "PLAYER_READY")

create_new_lobby_options(m, scenario_id, options) ==
    IF options
    THEN await_event(dispatch_command(m, "update_game_options"),
                     Task("create_new_lobby", 3, scenario_id, options),
                     {GAME_OPTIONS_CHANGED})
    ELSE create_new_lobby_finish(m)

create_new_lobby_scenario(m, scenario_id, options) ==
    IF scenario_id # None
    THEN await_event(dispatch_command(m, "select_scenario"),
                     Task("create_new_lobby", 2, scenario_id, options),
                     {SCENARIO_CHANGED})
    ELSE create_new_lobby_options(m, scenario_id, options)

create_new_lobby(m, scenario_id, options) ==
    IF m.phase # "Start" THEN raise(m, "Exception")
    ELSE await_event(dispatch_command(m, "create_new_game_lobby"),
                     Task("create_new_lobby", 1, scenario_id, options),
                     {LOBBY_CHANGED})

join_game(m) ==
    IF m.phase # "Start" THEN raise(m, "Exception")
    ELSE put_nowait(put_nowait(dispatch_command(m, "join_lobby"),
                               "CHANGE_LOBBY_PROPERTIES"), "PLAYER_READY")

\* request_connection_id up to its await of the connection id
request_connection_id(m) ==
    IF m.conn # None THEN raise(m, "Exception")
    ELSE await_event(dispatch_command(m, "connect"),
                     Task("request_connection_id", 1, None, FALSE),
                     {CONNECTION_ID_RECEIVED})

\* change_slot up to its await of the changed players
change_slot(m) ==
    IF m.phase # "Lobby" THEN raise(m, "RuntimeError")
    ELSE await_event(dispatch_command(m, "change_slot"),
                     Task("change_slot", 1, None, FALSE), {PLAYERS_CHANGED})

\* the loop of wait_for_players: it awaits changed players while the lobby
\* holds fewer than amount players besides one
players_awaited(m, amount) ==
    IF Cardinality({slot \in Slots : m.lobby.players[slot] # NoPlayer}) - 1 < amount
    THEN await_event(m, Task("wait_for_players", amount, None, FALSE),
                     {PLAYERS_CHANGED})
    ELSE m

wait_for_players(m, amount) ==
    IF m.phase # "Lobby" THEN raise(m, "RuntimeError")
    ELSE IF ~m.lobby.exists THEN raise(m, "RuntimeError")
    ELSE IF amount <= 0 THEN m
    ELSE players_awaited(m, amount)

\* leave_game up to its await of the server's confirmation
leave_game(m) ==
    IF ~m.lobby.exists /\ ~m.gs.exists THEN raise(m, "RuntimeError")
    ELSE await_event(dispatch_command(m, "leave_game"),
                     Task("leave_game", 1, None, FALSE), {GAME_LEFT})

buy_equipment(m, equipment_ids) ==
    IF m.phase # "Running" THEN raise(m, "RuntimeError")
    ELSE IF ~m.gs.exists THEN raise(m, "RuntimeError")
    ELSE IF m.gs.internal_phase # "Shopping" THEN raise(m, "RuntimeError")
    ELSE IF Len(equipment_ids) = 0 THEN m
    ELSE LET m1 == dispatch_command(m, "buy_equipment")
         IN put_nowait([m1 EXCEPT !.gs.internal_phase = "Playing"], "PLAY_CARD")

finish_shopping(m) ==
    IF m.phase # "Running" THEN raise(m, "RuntimeError")
    ELSE IF ~m.gs.exists THEN raise(m, "RuntimeError")
    ELSE IF m.gs.internal_phase # "Shopping" THEN raise(m, "RuntimeError")
    ELSE LET m1 == dispatch_command(m, "shopping_finished")
         IN put_nowait([m1 EXCEPT !.gs.internal_phase = "Playing"], "PLAY_CARD")

has_to_select(gs) == gs.selection_amount > 0 /\ Len(gs.selection_choices) > 0

selection_choose(m) ==
    IF m.phase # "Running" THEN raise(m, "RuntimeError")
    ELSE IF ~m.gs.exists THEN raise(m, "RuntimeError")
    ELSE IF ~has_to_select(m.gs) THEN raise(m, "RuntimeError")
    ELSE LET m1 == dispatch_command(m, "select_actions")
         IN [m1 EXCEPT !.gs.selection_amount = 0, !.gs.selection_choices = <<>>,
                       !.gs.turn = @ + 1]

\* play_action up to its await of the reply; Output.play_action refuses an
\* attack mask outside VALID_ATTACK_MASKS
play_action(m, valid_attack_mask) ==
    IF ~valid_attack_mask THEN raise(m, "ValueError")
    ELSE await_event(dispatch_command(m, "play_action"),
                     Task("play_action", 1, None, FALSE), {PLAY_ACTION_REPLY})

\* play_action once the reply has arrived: it returns the reply's success flag
play_action_reply(m, data) == [m EXCEPT !.ret = data]

\* get_valid_actions up to its await of the server's validation
get_valid_actions(m) ==
    IF m.phase # "Running" THEN raise(m, "RuntimeError")
    ELSE IF ~m.gs.exists THEN raise(m, "RuntimeError")
    ELSE IF ~is_my_turn(m.gs, m.gs.external_phase) THEN raise(m, "RuntimeError")
    ELSE await_event(dispatch_command(m, "get_valid_actions"),
                     Task("get_valid_actions", 1, None, FALSE), {ALL_ACTIONS_PLAYABLE})

\* get_valid_actions leaving the game before it surrenders
get_valid_actions_reply_leaving_first(m, data) ==
    IF data = "none"
    THEN [dispatch_command(dispatch_command(m, "leave_game"), "game_surrender")
             EXCEPT !.ret = "none"]
    ELSE [m EXCEPT !.ret = data]

\* get_valid_actions once the validation has arrived: with nothing playable it
\* surrenders and leaves the game
get_valid_actions_reply(m, data) ==
    IF data = "none"
    THEN [dispatch_command(dispatch_command(m, "game_surrender"), "leave_game")
             EXCEPT !.ret = "none"]
    ELSE [m EXCEPT !.ret = data]

\* next_interaction_type with a request taken from the queue: a ChooseAction
\* waits for the offer unless one was received
next_interaction_taken(m) ==
    LET taken == Head(m.buf)
        m1 == [m EXCEPT !.buf = Tail(@)]
    IN IF taken = "CHOOSE_ACTION" /\ ~m1.offer
       THEN await_event(m1, Task("next_interaction_type", 1, taken, FALSE),
                        {SELECTION_OFFER_CHANGED})
       ELSE [m1 EXCEPT !.ret = taken]

-----------------------------------------------------------------------------
(* The state machine *)

Init ==
    /\ phase = "Start"
    /\ lobby = NoLobby
    /\ actor_connection_id = None
    /\ game_state = NoGameState
    /\ offer_received = FALSE
    /\ interaction_buffer = <<"CREATE_OR_JOIN_LOBBY">>
    /\ event_listener = <<>>
    /\ caller = "idle"
    /\ started = 0
    /\ listening_job = "running"
    /\ observed = NotObserved
    /\ last = [op |-> "init", arg |-> None, outcome |-> "ok", resumed |-> FALSE,
               events |-> <<>>, sent |-> <<>>, ret |-> None]

\* the session as Game.__init__ leaves it, as a task sees it
InitialMachine ==
    [phase |-> "Start", lobby |-> NoLobby, conn |-> None, gs |-> NoGameState,
     offer |-> FALSE, buf |-> <<"CREATE_OR_JOIN_LOBBY">>, ls |-> <<>>, ev |-> <<>>,
     sent |-> <<>>, err |-> "none", susp |-> FALSE, ret |-> None]

\* The session of a joined game up to its start: the caller takes the first
\* request and joins, the server sends the connection id and the lobby, the
\* caller takes the two requests of the lobby, and the server starts the game.
joined_lobby(lobbyMsg) ==
    LET m1 == join_game(next_interaction_taken(InitialMachine))
        m2 == set_lobby_information(set_connection_id(m1, "c1"), lobbyMsg)
        m3 == next_interaction_taken(next_interaction_taken(m2))
    IN [m3 EXCEPT !.ev = <<>>, !.sent = <<>>, !.ret = None]

started_game(lobbyMsg, game) == start_game(joined_lobby(lobbyMsg), game)

\* the session in the lobby it joined, its requests taken; started counts from
\* there
InitLobby ==
    \E l \in LobbyMessages :
        LET m == joined_lobby(l) IN
        /\ Live(m)
        /\ phase = m.phase
        /\ lobby = m.lobby
        /\ actor_connection_id = m.conn
        /\ game_state = m.gs
        /\ offer_received = m.offer
        /\ interaction_buffer = m.buf
        /\ event_listener = m.ls
        /\ caller = "idle"
        /\ started = 0
        /\ listening_job = "running"
        /\ observed = NotObserved
        /\ last = [op |-> "next_interaction_type", arg |-> None, outcome |-> "ok",
                   resumed |-> FALSE, events |-> <<>>, sent |-> <<>>,
                   ret |-> "PLAYER_READY"]

\* the session when its game has just started; started counts from there
InitRunning ==
    \E l \in LobbyMessages, g \in GameMessages :
        LET m == started_game(l, g) IN
        /\ Live(m)
        /\ phase = m.phase
        /\ lobby = m.lobby
        /\ actor_connection_id = m.conn
        /\ game_state = m.gs
        /\ offer_received = m.offer
        /\ interaction_buffer = m.buf
        /\ event_listener = m.ls
        /\ caller = "idle"
        /\ started = 0
        /\ listening_job = "running"
        /\ observed = NotObserved
        /\ last = [op |-> "start_game", arg |-> g, outcome |-> "ok",
                   resumed |-> FALSE, events |-> m.ev, sent |-> m.sent,
                   ret |-> m.ret]

\* The caller's object after a task has run. The handlers change the lists of
\* the snapshot in place (hand.extend, assets_on_board.append and pop), so an
\* object that shares them reads the new contents; start_game builds a GameState
\* with lists of its own.
observed_after(m, op) ==
    IF ~observed.exists \/ ~observed.shared THEN observed
    ELSE IF op = "start_game" /\ m.gs # game_state
         THEN [observed EXCEPT !.shared = FALSE]
    ELSE [observed EXCEPT !.reads_hand = m.gs.hand,
                          !.reads_board = m.gs.assets_on_board]

Outcome(m) ==
    IF m.err # "none" THEN m.err ELSE IF m.susp THEN "suspended" ELSE "ok"

\* the task's run ends (it returned, raised or suspended): its effects are the
\* new state
Commit(m, op, arg, resumed) ==
    /\ phase' = m.phase
    /\ lobby' = m.lobby
    /\ actor_connection_id' = m.conn
    /\ game_state' = m.gs
    /\ offer_received' = m.offer
    /\ interaction_buffer' = m.buf
    /\ event_listener' = m.ls
    /\ observed' = observed_after(m, op)
    /\ last' = [op |-> op, arg |-> arg, outcome |-> Outcome(m), resumed |-> resumed,
                events |-> m.ev, sent |-> m.sent, ret |-> m.ret]

\* interpret letting the exception of an unknown event leave it
interpret_raising_on_unknown(known, parsable) ==
    IF ~(known /\ parsable) THEN "raised" ELSE "task"

\* interpret up to the task of the handler. The schema of a known event parses
\* the data before the try block, so its ValueError leaves interpret ("raised");
\* an unknown event is logged and leaves message_dict unbound, and the
\* UnboundLocalError of the call in the try block is caught ("dropped");
\* otherwise the handler gets a task of its own ("task").
interpret(known, parsable) ==
    IF known /\ ~parsable THEN "raised"
    ELSE IF ~known THEN "dropped"
    ELSE "task"

\* listen_to_messages around one message: an exception of interpret ends the job
listen_to_messages(job, interpreted) ==
    IF interpreted = "raised" THEN "failed" ELSE job

\* the intake of an interpreter that awaits the handler itself: no message is
\* read while a handler is suspended
intake_open_between_handlers ==
    /\ listening_job = "running"
    /\ \A i \in DOMAIN event_listener : event_listener[i].task.kind \in CallerOps

\* the next message is read and handed to a task: listen_to_messages is running
\* and awaits interpret, which creates the handler's task and does not await it
intake_open ==
    /\ listening_job = "running"
    /\ interpret(TRUE, TRUE) = "task"

\* a message handler's task runs from its creation to its first suspension
Handle(m, op, arg) ==
    /\ intake_open
    /\ started < MaxStarted
    /\ started' = started + 1
    /\ Commit(m, op, arg, FALSE)
    /\ listening_job' = listen_to_messages(listening_job, interpret(TRUE, TRUE))
    /\ UNCHANGED caller

\* a message for which interpret creates no task: its event is unknown, or its
\* data does not fit the schema of its event
On_message_without_handler ==
    \E known, parsable \in BOOLEAN :
        /\ listening_job = "running"
        /\ interpret(known, parsable) # "task"
        /\ started < MaxStarted
        /\ started' = started + 1
        /\ listening_job' = listen_to_messages(listening_job, interpret(known, parsable))
        /\ last' = [op |-> "interpret",
                    arg |-> IF known THEN "unparsable" ELSE "unknown",
                    outcome |-> IF interpret(known, parsable) = "raised"
                                THEN "ValueError" ELSE "ok",
                    resumed |-> FALSE, events |-> <<>>, sent |-> <<>>, ret |-> None]
        /\ UNCHANGED <<phase, lobby, actor_connection_id, game_state, offer_received,
                       interaction_buffer, event_listener, caller, observed>>

\* the caller calls an operation, which runs to its first suspension
Call(m, op, arg) ==
    /\ caller = "idle"
    /\ started < MaxStarted
    /\ started' = started + 1
    /\ Commit(m, op, arg, FALSE)
    /\ caller' = IF m.susp THEN "awaiting" ELSE "idle"
    /\ UNCHANGED listening_job

On_new_connection_id ==
    \E c \in ConnIds : Handle(set_connection_id(Machine, c), "set_connection_id", c)

On_lobby_info ==
    \E l \in LobbyMessages :
        Handle(set_lobby_information(Machine, l), "set_lobby_information", l)

On_player_entered ==
    \E slot \in {0} \cup Slots :
        Handle(set_lobby_player_information_for_slot(Machine, ThePlayer, slot),
               "set_lobby_player_information_for_slot", slot)

On_player_left ==
    \E slot \in {0} \cup Slots : Handle(remove_player(Machine, slot), "remove_player", slot)

On_changed_slots ==
    \E new_slot \in Slots, old_slot \in Slots :
        Handle(changed_slots(Machine, new_slot, old_slot), "changed_slots",
               <<new_slot, old_slot>>)

On_scenario_changed ==
    \E sc \in LobbyScenarios \ {NoScenario} :
        Handle(set_scenario(Machine, sc), "set_scenario", sc)

On_game_options_changed ==
    \E mode \in {0, 1} : 
        Handle(update_game_options(Machine, mode), "update_game_options", mode)

On_game_started ==
    \E g \in GameMessages : Handle(start_game(Machine, g), "start_game", g)

On_game_phase_changed ==
    \E gp \in GamePhaseNames : 
        Handle(set_game_phase(Machine, gp), "set_game_phase", gp)

On_actions_received ==
    Handle(add_new_actions_to_hand(Machine, NewActions), "add_new_actions_to_hand",
           NewActions)

On_game_turn_changed ==
    \E t \in TurnValues : 
        Handle(game_turn_changed(Machine, t), "game_turn_changed", t)

On_offer_selection ==
    Handle(set_received_offering(Machine, OfferedActions, 1), "set_received_offering",
           OfferedActions)

On_all_actions_playable ==
    \E r \in {"none", "some"} :
        Handle(set_all_actions_playable(Machine, r), "set_all_actions_playable", r)

On_action_success ==
    \E ok \in {"True", "False"} :
        Handle(played_action_reply(Machine, ok), "played_action_reply", ok)

\* a task of the event bus alone: it awaits one of a set of events
Bus_await_event ==
    \E names \in AwaitedNames :
        Handle(await_event(Machine, Task("await_event", 0, None, FALSE), names),
               "await_event", names)

\* a task of the event bus alone: it publishes an event with a payload and a
\* default for the case that no listener claims it
Bus_dispatch_event ==
    \E event \in PublishedNames, data \in Payloads :
        Handle(dispatch_event_result(Machine, event, data, DefaultReturn),
               "dispatch_event", [event |-> event, data |-> data])

On_asset_changes ==
    \E revealed \in AssetLists, hidden \in AssetLists :
        LET asset_changes == [revealed |-> revealed, hidden |-> hidden] IN
        Handle(update_assets(Machine, asset_changes), "update_assets", asset_changes)

On_asset_changed ==
    \E asset \in AssetIds : Handle(update_asset(Machine, asset), "update_asset", asset)

On_game_state ==
    \E game \in GameMessages :
        Handle(update_game_state(Machine, game), "update_game_state", game)

\* the caller reads Game.game_state and keeps the object
Read_game_state ==
    /\ caller = "idle"
    /\ game_state.exists
    /\ ~observed.exists
    /\ observed' = [exists |-> TRUE, shared |-> TRUE,
                    hand |-> game_state.hand, board |-> game_state.assets_on_board,
                    reads_hand |-> game_state.hand,
                    reads_board |-> game_state.assets_on_board]
    /\ last' = [op |-> "game_state", arg |-> None, outcome |-> "ok", resumed |-> FALSE,
                events |-> <<>>, sent |-> <<>>, ret |-> None]
    /\ UNCHANGED <<phase, lobby, actor_connection_id, game_state, offer_received,
                   interaction_buffer, event_listener, caller, started, listening_job>>

On_error == Handle(error(Machine), "error", None)

On_got_kicked == Handle(got_kicked(Machine), "got_kicked", None)

On_game_ended == Handle(game_ended(Machine, "WON"), "game_ended", "WON")

On_update_player ==
    \E c \in ConnIds : Handle(update_player(Machine, c), "update_player", c)

On_game_player_changed ==
    \E new, old \in ConnIds :
        /\ Len(game_state.players) < MaxPlayers
        /\ Handle(game_player_changed(Machine, new, old, new),
                  "game_player_changed", old)

Call_create_new_lobby ==
    \E sc \in {None, "s1"}, options \in BOOLEAN :
        Call(create_new_lobby(Machine, sc, options), "create_new_lobby", sc)

Call_join_game == Call(join_game(Machine), "join_game", None)

Call_request_connection_id ==
    Call(request_connection_id(Machine), "request_connection_id", None)

Call_change_slot == Call(change_slot(Machine), "change_slot", None)

\* the amount is kept in the task's step
Call_wait_for_players ==
    \E amount \in {0, 1} :
        Call(wait_for_players(Machine, amount), "wait_for_players", None)

Call_leave_game == Call(leave_game(Machine), "leave_game", None)

Call_buy_equipment ==
    \E ids \in {<<>>, <<1>>} : 
        Call(buy_equipment(Machine, ids), "buy_equipment", ids)

Call_finish_shopping == Call(finish_shopping(Machine), "finish_shopping", None)

Call_selection_choose == Call(selection_choose(Machine), "selection_choose", None)

Call_play_action ==
    \E valid \in BOOLEAN : Call(play_action(Machine, valid), "play_action", valid)

Call_get_valid_actions == Call(get_valid_actions(Machine), "get_valid_actions", None)

\* next_interaction_type: interaction_buffer.get() returns at once from a
\* non-empty queue and suspends the caller on an empty one
Call_next_interaction_type ==
    /\ caller = "idle"
    /\ started < MaxStarted
    /\ started' = started + 1
    /\ UNCHANGED listening_job
    /\ IF interaction_buffer # <<>>
       THEN LET m == next_interaction_taken(Machine) IN
            /\ Commit(m, "next_interaction_type", None, FALSE)
            /\ caller' = IF m.susp THEN "awaiting" ELSE "idle"
       ELSE /\ caller' = "getting"
            /\ last' = [op |-> "next_interaction_type", arg |-> None, outcome |-> "suspended",
                        resumed |-> FALSE, events |-> <<>>, sent |-> <<>>,
                        ret |-> None]
            /\ UNCHANGED <<phase, lobby, actor_connection_id, game_state,
                           offer_received, interaction_buffer, event_listener,
                           observed>>

\* the caller suspended in interaction_buffer.get() is given a request
Wake_next_interaction_type ==
    /\ caller = "getting"
    /\ interaction_buffer # <<>>
    /\ UNCHANGED <<started, listening_job>>
    /\ LET m == next_interaction_taken(Machine) IN
       /\ caller' = IF m.susp THEN "awaiting" ELSE "idle"
       /\ Commit(m, "next_interaction_type", None, TRUE)

\* wait_for's deadline passes on the empty queue
Timeout_next_interaction_type ==
    /\ caller = "getting"
    /\ interaction_buffer = <<>>
    /\ caller' = "idle"
    /\ last' = [op |-> "next_interaction_type", arg |-> None,
                outcome |-> "TimeoutError",
                resumed |-> TRUE, events |-> <<>>, sent |-> <<>>, ret |-> None]
    /\ UNCHANGED <<phase, lobby, actor_connection_id, game_state,
                   offer_received, interaction_buffer, event_listener, started,
                   listening_job, observed>>

\* a task whose awaited event was delivered runs on from its await_event: the
\* listener is removed (finally) and the coroutine continues
Continue(m, t, data) ==
    CASE t.kind = "set_game_phase" -> set_game_phase(m, t.s)
      [] t.kind = "add_new_actions_to_hand" -> add_new_actions_to_hand(m, NewActions)
      [] t.kind = "game_turn_changed" -> game_turn_changed(m, t.step)
      [] t.kind = "set_received_offering" ->
             set_received_offering(m, OfferedActions, t.step)
      [] t.kind = "set_all_actions_playable" -> set_all_actions_playable(m, t.s)
      [] t.kind = "played_action_reply" -> played_action_reply(m, t.s)
      [] t.kind = "create_new_lobby" /\ t.step = 1 ->
             create_new_lobby_scenario(m, t.s, t.f)
      [] t.kind = "create_new_lobby" /\ t.step = 2 ->
             create_new_lobby_options(m, t.s, t.f)
      [] t.kind = "create_new_lobby" /\ t.step = 3 -> create_new_lobby_finish(m)
      [] t.kind = "play_action" -> play_action_reply(m, data)
      [] t.kind = "get_valid_actions" -> get_valid_actions_reply(m, data)
      [] t.kind = "next_interaction_type" -> [m EXCEPT !.ret = t.s]
      [] t.kind = "await_event" -> [m EXCEPT !.ret = data]
      [] t.kind = "request_connection_id" -> m
      [] t.kind = "change_slot" -> m
      [] t.kind = "wait_for_players" -> players_awaited(m, t.step)
      [] t.kind = "leave_game" -> m
      [] t.kind = "update_assets" -> update_assets(m, t.s)
      [] t.kind = "update_asset" -> update_asset(m, t.s)
      [] t.kind = "update_game_state" -> update_game_state(m, t.s)

Resume ==
    \E i \in 1..Len(event_listener) :
        LET l == event_listener[i]
            m == Continue([Machine EXCEPT !.ls = RemoveAt(@, i)], l.task, l.data)
        IN /\ l.done
           /\ UNCHANGED <<started, listening_job>>
           /\ caller' = IF l.task.kind \in CallerOps
                        THEN (IF m.susp THEN "awaiting" ELSE "idle")
                        ELSE caller
           /\ Commit(m, l.task.kind, l.task.s, TRUE)

\* ', '.join(event_or_events): the awaited names, one after the other
RECURSIVE join(_)
join(names) ==
    IF names = {} THEN ""
    ELSE LET name == CHOOSE n \in names : TRUE IN
         IF names = {name} THEN name ELSE name \o ", " \o join(names \ {name})

\* the handlers that wait for a session phase (_await_correct_game_storage_phase)
PhaseWaiters ==
    {"set_game_phase", "add_new_actions_to_hand", "game_turn_changed",
     "set_received_offering", "set_all_actions_playable", "played_action_reply",
     "update_assets", "update_asset", "update_game_state"}

\* what the TimeoutError says: await_event names the awaited events, and the
\* wait for a session phase replaces that by the phases it waited for
timeout_message(l) ==
    IF l.task.kind \in PhaseWaiters THEN "wrong game storage phase"
    ELSE join(l.events)

\* the deadlines of the handlers' waits alone: the caller's await_event has none
Timeout_of_handlers ==
    \E i \in 1..Len(event_listener) :
        LET l == event_listener[i]
            m == raise([Machine EXCEPT !.ls = RemoveAt(@, i),
                                       !.ret = timeout_message(l)], "TimeoutError")
        IN /\ ~l.done
           /\ l.task.kind \notin CallerOps
           /\ UNCHANGED <<caller, started, listening_job>>
           /\ Commit(m, l.task.kind, l.task.s, TRUE)

\* the deadline of an await_event passes before its event is published: the
\* listener is removed and TimeoutError ends the task
Timeout ==
    \E i \in 1..Len(event_listener) :
        LET l == event_listener[i]
            m == raise([Machine EXCEPT !.ls = RemoveAt(@, i),
                                       !.ret = timeout_message(l)], "TimeoutError")
        IN /\ ~l.done
           /\ UNCHANGED <<started, listening_job>>
           /\ caller' = IF l.task.kind \in CallerOps THEN "idle" ELSE caller
           /\ Commit(m, l.task.kind, l.task.s, TRUE)

Next ==
    \/ On_new_connection_id
    \/ On_lobby_info
    \/ On_player_entered
    \/ On_player_left
    \/ On_changed_slots
    \/ On_scenario_changed
    \/ On_game_options_changed
    \/ On_game_started
    \/ On_game_phase_changed
    \/ On_actions_received
    \/ On_game_turn_changed
    \/ On_offer_selection
    \/ On_all_actions_playable
    \/ On_action_success
    \/ On_game_ended
    \/ Call_create_new_lobby
    \/ Call_join_game
    \/ Call_buy_equipment
    \/ Call_finish_shopping
    \/ Call_selection_choose
    \/ Call_play_action
    \/ Call_get_valid_actions
    \/ Call_next_interaction_type
    \/ Wake_next_interaction_type
    \/ Timeout_next_interaction_type
    \/ Resume
    \/ Timeout

Spec == Init /\ [][Next]_vars

\* the session from the lobby to the end of the game
NextSession ==
    \/ On_new_connection_id
    \/ On_lobby_info
    \/ On_scenario_changed
    \/ On_game_options_changed
    \/ On_game_started
    \/ On_game_phase_changed
    \/ On_game_ended
    \/ Call_create_new_lobby
    \/ Call_join_game
    \/ Resume
    \/ Timeout

SpecSession == Init /\ [][NextSession]_vars

\* the lobby and its slots up to the start of the game
NextSlots ==
    \/ On_new_connection_id
    \/ On_lobby_info
    \/ On_player_entered
    \/ On_player_left
    \/ On_changed_slots
    \/ On_game_started

SpecSlots == Init /\ [][NextSlots]_vars

\* the caller's operations of a game and the server's replies to them
NextCalls ==
    \/ On_new_connection_id
    \/ On_lobby_info
    \/ On_game_started
    \/ On_game_phase_changed
    \/ On_offer_selection
    \/ On_all_actions_playable
    \/ On_action_success
    \/ Call_buy_equipment
    \/ Call_finish_shopping
    \/ Call_selection_choose
    \/ Call_play_action
    \/ Call_get_valid_actions
    \/ Resume
    \/ Timeout

SpecCalls == Init /\ [][NextCalls]_vars

\* the messages of a running game: phases, turns and cards
NextPlay ==
    \/ On_new_connection_id
    \/ On_lobby_info
    \/ On_game_started
    \/ On_game_phase_changed
    \/ On_actions_received
    \/ On_game_turn_changed
    \/ On_game_ended
    \/ Resume
    \/ Timeout

SpecPlay == Init /\ [][NextPlay]_vars

\* the requests to the caller: a new session, or a game that has just started,
\* with the phases, turns and offers of the server and the caller's answers
NextChoose ==
    \/ On_game_phase_changed
    \/ On_game_turn_changed
    \/ On_offer_selection
    \/ Call_selection_choose
    \/ Call_next_interaction_type
    \/ Wake_next_interaction_type
    \/ Timeout_next_interaction_type
    \/ Resume
    \/ Timeout

SpecChoose == (Init \/ InitRunning) /\ [][NextChoose]_vars

\* the turn of a started game: phases, the caller's validation request and
\* play, and the server's replies
NextTurn ==
    \/ On_game_phase_changed
    \/ On_all_actions_playable
    \/ On_action_success
    \/ Call_play_action
    \/ Call_get_valid_actions
    \/ Resume
    \/ Timeout

SpecTurn == InitRunning /\ [][NextTurn]_vars

\* the session's phases and the server's error event
NextError ==
    \/ On_new_connection_id
    \/ On_lobby_info
    \/ On_game_started
    \/ On_game_ended
    \/ On_error

SpecError == Init /\ [][NextError]_vars

\* the caller asking for its next interaction, and the server's error and
\* got_kicked events
NextKicked ==
    \/ On_new_connection_id
    \/ On_lobby_info
    \/ On_error
    \/ On_got_kicked
    \/ Call_next_interaction_type
    \/ Wake_next_interaction_type
    \/ Timeout_next_interaction_type

SpecKicked == Init /\ [][NextKicked]_vars

\* the identity of the session: connection ids from the server, before and in
\* a game
NextIdentity ==
    \/ On_new_connection_id
    \/ On_lobby_info
    \/ On_game_started
    \/ On_update_player
    \/ On_game_player_changed

SpecIdentity == Init /\ [][NextIdentity]_vars

\* the event bus alone (EventBasedObject): tasks await and publish events
NextBus ==
    \/ Bus_await_event
    \/ Bus_dispatch_event
    \/ Resume
    \/ Timeout

SpecBus == Init /\ [][NextBus]_vars

\* the intake of messages: the session up to its game, and messages for which
\* no handler runs
NextIntake ==
    \/ On_new_connection_id
    \/ On_lobby_info
    \/ On_game_started
    \/ On_game_phase_changed
    \/ On_message_without_handler
    \/ Resume
    \/ Timeout

SpecIntake == Init /\ [][NextIntake]_vars

\* the snapshot of a started game: cards, assets and full states from the
\* server, and the caller reading the snapshot
NextBoard ==
    \/ On_actions_received
    \/ On_asset_changes
    \/ On_asset_changed
    \/ On_game_state
    \/ Read_game_state

SpecBoard == InitRunning /\ [][NextBoard]_vars

\* the caller's operations that wait for the server, in a new session, a lobby
\* or a started game, with the messages that some of them wait for
NextCaller ==
    \/ On_player_entered
    \/ On_game_phase_changed
    \/ Call_request_connection_id
    \/ Call_create_new_lobby
    \/ Call_change_slot
    \/ Call_wait_for_players
    \/ Call_get_valid_actions
    \/ Call_play_action
    \/ Call_leave_game
    \/ Call_next_interaction_type
    \/ Wake_next_interaction_type
    \/ Timeout_next_interaction_type
    \/ Resume
    \/ Timeout

\* the futures the event bus holds: whose each is, and whether it is resolved
waiting_futures ==
    [i \in DOMAIN event_listener |->
        <<event_listener[i].task.kind, event_listener[i].task.step,
          event_listener[i].done>>]

\* The event loop runs every task that is ready (Resume, Wake) and the timers
\* of wait_for fire (Timeout): no such step stays possible without being taken.
\* Each of these steps changes the futures, the queue or the caller's position.
SpecCaller ==
    /\ Init \/ InitLobby \/ InitRunning
    /\ [][NextCaller]_vars
    /\ WF_waiting_futures(Resume)
    /\ WF_waiting_futures(Timeout)
    /\ WF_interaction_buffer(Wake_next_interaction_type)
    /\ WF_caller(Timeout_next_interaction_type)

-----------------------------------------------------------------------------
(* The candidates of get_valid_actions *)

\* the longest hand and the longest equipment list of the inputs
MaxHand == 3
MaxEquipment == 2

\* the cards a hand may hold and their card_type: two main actions, a support
\* action and a card of another type
HandCards == {6, 7, 8, 9}
card_type(action) ==
    CASE action = 7 -> "main"
      [] action = 9 -> "main"
      [] action = 8 -> "support"
      [] OTHER -> "equipment"

\* the equipment a player may own and its type: one permanent, one not
EquipmentIds == {21, 22}
equipment_type(data) == IF data = 21 THEN "AttackTool" ELSE "SingleUse"

Hands == UNION {[1..n -> HandCards] : n \in 0..MaxHand}
EquipmentLists == UNION {[1..n -> EquipmentIds] : n \in 0..MaxEquipment}

perm_eq ==
    {"AttackTool", "SecuritySystem", "GlobalSingleUseDefenseEquipment",
     "GlobalSingleUseAttackEquipment"}

\* enumerate(hand) filtered: the 1-based positions, in order, of the cards of
\* the hand whose card_type is the given one
hand_positions(hand, type) ==
    SelectSeq([i \in 1..Len(hand) |-> i], LAMBDA i : card_type(hand[i]) = type)

main_action_idxs(hand) ==
    LET at == hand_positions(hand, "main")
    IN [k \in 1..Len(at) |-> at[k] - 1]

\* the support positions without the entry for no support action
support_action_idxs_of_hand(hand) == hand_positions(hand, "support")

support_action_idxs(hand) == Append(hand_positions(hand, "support"), 0)

equipment_idxs(equipment) ==
    Append(SelectSeq([i \in 1..Len(equipment) |-> i],
                     LAMBDA i : equipment_type(equipment[i]) \notin perm_eq), 0)

\* list(itertools.product(a, b, c)): the last list varies fastest
product(a, b, c) ==
    [k \in 1..(Len(a) * Len(b) * Len(c)) |->
        <<a[((k - 1) \div (Len(b) * Len(c))) + 1],
          b[(((k - 1) \div Len(c)) % Len(b)) + 1],
          c[((k - 1) % Len(c)) + 1]>>]

get_all_action_combinatinations(gs) ==
    product(main_action_idxs(gs.hand), support_action_idxs(gs.hand),
            equipment_idxs(gs.equipment))

\* a started game whose hand and equipment the server's messages have made
InitHand ==
    \E l \in LobbyMessages, g \in GameMessages, hand \in Hands,
       equipment \in EquipmentLists :
        LET m == started_game(l, g) IN
        /\ Live(m)
        /\ phase = m.phase
        /\ lobby = m.lobby
        /\ actor_connection_id = m.conn
        /\ game_state = [m.gs EXCEPT !.hand = hand, !.equipment = equipment]
        /\ offer_received = m.offer
        /\ interaction_buffer = m.buf
        /\ event_listener = m.ls
        /\ caller = "idle"
        /\ started = 0
        /\ listening_job = "running"
        /\ observed = NotObserved
        /\ last = [op |-> "start_game", arg |-> g, outcome |-> "ok",
                   resumed |-> FALSE, events |-> m.ev, sent |-> m.sent,
                   ret |-> m.ret]

\* get_valid_actions computes its candidates; nothing of the session changes
Get_all_action_combinatinations ==
    /\ last.op # "_get_all_action_combinatinations"
    /\ last' = [op |-> "_get_all_action_combinatinations", arg |-> None,
                outcome |-> "ok", resumed |-> FALSE, events |-> <<>>,
                sent |-> <<>>, ret |-> get_all_action_combinatinations(game_state)]
    /\ UNCHANGED <<phase, lobby, actor_connection_id, game_state, offer_received,
                   interaction_buffer, event_listener, caller, started,
                   listening_job, observed>>

NextCombinations == Get_all_action_combinatinations

SpecCombinations == InitHand /\ [][NextCombinations]_vars

-----------------------------------------------------------------------------
(* PQPParser: the fields declared as Options *)

\* the longest list a field of a message holds
MaxElems == 2

\* what a message holds where a value stands: an int (5), a string that is no
\* number ("abc"), a dict with the required fields of Equipment and a dict
\* without them
MessageAtoms == {"int", "text", "equipment", "dict"}

\* the value of a field: one atom, or a list of atoms
MessageValues ==
    {[list |-> FALSE, elems |-> <<a>>] : a \in MessageAtoms}
        \cup {[list |-> TRUE, elems |-> e] :
                 e \in UNION {[1..n -> MessageAtoms] : n \in 0..MaxElems}}

\* the fields that message_models declares with Options
OptionsFields ==
    {[name |-> "equipment_played_with", dtypes |-> <<"List[int]", "List[Equipment]">>,
      nullable |-> TRUE],
     [name |-> "error_id", dtypes |-> <<"int", "List[int]">>, nullable |-> FALSE],
     [name |-> "error_message", dtypes |-> <<"str", "List[str]">>, nullable |-> FALSE]}

NotParsed == <<>>

\* dtype.__args__[0] of a List type
list_args(dtype) ==
    CASE dtype = "List[int]" -> "int"
      [] dtype = "List[str]" -> "str"
      [] dtype = "List[Equipment]" -> "Equipment"
      [] OTHER -> None

\* try_parse_message of a value that is no list with the one type dtype: a
\* dict is parsed by a type whose required fields it holds, anything else by
\* the constructor dtype(message); <<>> stands for None
try_parse_value(atom, dtype) ==
    IF atom \in {"equipment", "dict"}
    THEN IF dtype = "Equipment" /\ atom = "equipment" THEN <<<<dtype, atom>>>>
         ELSE NotParsed
    ELSE CASE dtype = "int" -> IF atom = "int" THEN <<<<dtype, atom>>>> ELSE NotParsed
           [] dtype = "str" -> <<<<dtype, atom>>>>
           [] OTHER -> NotParsed

\* the loop over the elements of a list: it stops at the first element that
\* the type does not parse
RECURSIVE try_parse_elems(_, _)
try_parse_elems(elems, dtype) ==
    IF elems = <<>> THEN <<>>
    ELSE LET parsed_elem == try_parse_value(Head(elems), dtype)
         IN IF parsed_elem = NotParsed THEN <<>>
            ELSE parsed_elem \o try_parse_elems(Tail(elems), dtype)

\* try_parse_message from the k-th type on: the first type that fits
RECURSIVE try_parse_message_from(_, _, _)
try_parse_message_from(message, dtypes, k) ==
    IF k > Len(dtypes) THEN [parsed |-> FALSE, by |-> 0, value |-> <<>>]
    ELSE LET dtype == dtypes[k]
             parsed_message ==
                 IF message.list
                 THEN IF list_args(dtype) = None THEN <<>>
                      ELSE try_parse_elems(message.elems, list_args(dtype))
                 ELSE try_parse_value(message.elems[1], dtype)
             fits ==
                 IF message.list
                 THEN list_args(dtype) # None /\ Len(parsed_message) = Len(message.elems)
                 ELSE parsed_message # NotParsed
         IN IF fits THEN [parsed |-> TRUE, by |-> k, value |-> parsed_message]
            ELSE try_parse_message_from(message, dtypes, k + 1)

try_parse_message(message, dtypes) == try_parse_message_from(message, dtypes, 1)

\* parse_message at a field declared as Options that holds a value: it raises
\* only for a field that is not nullable
parse_options_field(field, message) ==
    LET message_obj == try_parse_message(message, field.dtypes)
    IN IF ~message_obj.parsed /\ ~field.nullable
       THEN [outcome |-> "ValueError", ret |-> message_obj]
       ELSE [outcome |-> "ok", ret |-> message_obj]

\* a message with a value in a field declared as Options arrives
InitParser ==
    \E field \in OptionsFields, message \in MessageValues :
        /\ phase = "Start"
        /\ lobby = NoLobby
        /\ actor_connection_id = None
        /\ game_state = NoGameState
        /\ offer_received = FALSE
        /\ interaction_buffer = <<"CREATE_OR_JOIN_LOBBY">>
        /\ event_listener = <<>>
        /\ caller = "idle"
        /\ started = 0
        /\ listening_job = "running"
        /\ observed = NotObserved
        /\ last = [op |-> "message", arg |-> [field |-> field, message |-> message],
                   outcome |-> "ok", resumed |-> FALSE, events |-> <<>>,
                   sent |-> <<>>, ret |-> [parsed |-> FALSE, by |-> 0, value |-> <<>>]]

Parse_message ==
    /\ last.op = "message"
    /\ LET r == parse_options_field(last.arg.field, last.arg.message)
       IN last' = [op |-> "parse_message", arg |-> last.arg, outcome |-> r.outcome,
                   resumed |-> FALSE, events |-> <<>>, sent |-> <<>>, ret |-> r.ret]
    /\ UNCHANGED <<phase, lobby, actor_connection_id, game_state, offer_received,
                   interaction_buffer, event_listener, caller, started,
                   listening_job, observed>>

NextParser == Parse_message

SpecParser == InitParser /\ [][NextParser]_vars

-----------------------------------------------------------------------------
(* Properties of the session *)

\* C1: whatever the interleaving of the handlers of lobby info, start game and
\* game ended with create_new_lobby and join_game, the session phase changes
\* only by the steps Start -> Lobby, Lobby -> Running and Running -> Ended.
C1_PhaseSteps ==
    [][phase' # phase =>
          <<phase, phase'>> \in {<<"Start", "Lobby">>, <<"Lobby", "Running">>,
                                 <<"Running", "Ended">>}]_vars

\* C2: buy_equipment, finish_shopping, play_action, selection_choose and
\* get_valid_actions called while the session phase is not Running fail (the
\* call ends with an exception), send no command and leave the session's state
\* as it was.
C2_CallsOutsideRunning ==
    [][(/\ phase # "Running"
        /\ ~last'.resumed
        /\ last'.op \in {"buy_equipment", "finish_shopping", "play_action",
                         "selection_choose", "get_valid_actions"})
       => /\ last'.outcome \notin {"ok", "suspended"}
          /\ last'.sent = <<>>
          /\ UNCHANGED <<phase, lobby, actor_connection_id, game_state,
                         offer_received, interaction_buffer, event_listener>>]_vars

\* C3: a start-game handled while one of its preconditions fails (the phase is
\* not Lobby, there is no lobby, the lobby has no scenario or another one than
\* the game, the connection id is unset or is no key of the game's roles) raises
\* and leaves the session phase, the snapshot and the interaction queue as they
\* were, and publishes no event.
C3_StartGameRefused ==
    [][(/\ last'.op = "start_game"
        /\ \/ phase # "Lobby"
           \/ ~lobby.exists
           \/ lobby.scenario = NoScenario
           \/ lobby.scenario # last'.arg.scenario_id
           \/ actor_connection_id = None
           \/ ~RoleGet(last'.arg.roles, actor_connection_id).exists)
       => /\ last'.outcome = "RuntimeError"
          /\ phase' = phase
          /\ game_state' = game_state
          /\ interaction_buffer' = interaction_buffer
          /\ last'.events = <<>>]_vars

\* C3's case: in a lobby with the game's scenario a start-game was refused
\* because the local connection id is no key of the game's roles
C3_Witness ==
    /\ last.op = "start_game"
    /\ last.outcome = "RuntimeError"
    /\ phase = "Lobby"
    /\ lobby.exists
    /\ lobby.scenario = last.arg.scenario_id
    /\ actor_connection_id = "c2"
    /\ ~game_state.exists

\* C4: a start-game that passes its validation creates the snapshot, sets the
\* session phase to Running, publishes the phase-changed event before the
\* game-started event, has filled the roles, the board, the hand and the
\* equipment from the local role, and enqueues no interaction.
C4_StartGameApplied ==
    [][(/\ last'.op = "start_game"
        /\ phase = "Lobby"
        /\ lobby.exists
        /\ lobby.scenario # NoScenario
        /\ lobby.scenario = last'.arg.scenario_id
        /\ actor_connection_id # None
        /\ RoleGet(last'.arg.roles, actor_connection_id).exists)
       => LET role == RoleGet(last'.arg.roles, actor_connection_id)
              ev == last'.events
              board == game_state'.assets_on_board
              on_board(assets) ==
                  \A k \in 1..Len(assets) : \E i \in 1..Len(board) : board[i] = assets[k]
          IN /\ game_state'.exists
             /\ phase' = "Running"
             /\ \E i, j \in 1..Len(ev) :
                    /\ i < j
                    /\ ev[i] = GAME_STORAGE_PHASE_CHANGED
                    /\ ev[j] = GAME_STARTED
             /\ game_state'.roles = last'.arg.roles
             /\ on_board(role.visible_assets)
             /\ (role.type = "defender" => on_board(role.assets))
             /\ game_state'.hand = role.actions
             /\ game_state'.equipment = role.equipment
             /\ interaction_buffer' = interaction_buffer]_vars

\* C5: a lobby-info handled while the session phase is Start or Lobby replaces
\* the lobby by the message's lobby, leaves the session phase Lobby, and
\* publishes lobby-changed once and then phase-changed once.
C5_LobbyInfoApplied ==
    [][(/\ last'.op = "set_lobby_information"
        /\ phase \in {"Start", "Lobby"})
       => LET ev == last'.events
          IN /\ lobby' = last'.arg
             /\ phase' = "Lobby"
             /\ Len(ev) >= 2
             /\ ev[1] = LOBBY_CHANGED
             /\ ev[2] = GAME_STORAGE_PHASE_CHANGED
             /\ \A i \in 3..Len(ev) :
                    ev[i] \notin {LOBBY_CHANGED, GAME_STORAGE_PHASE_CHANGED}]_vars

\* C6: player entered, player left and slots changed handled while the session
\* phase is not Lobby fail (the handler ends with an exception) and leave the
\* slot -> player map as it was.
C6_SlotsOutsideLobby ==
    [][(/\ phase # "Lobby"
        /\ last'.op \in {"set_lobby_player_information_for_slot", "remove_player",
                         "changed_slots"})
       => /\ last'.outcome \notin {"ok", "suspended"}
          /\ lobby'.players = lobby.players]_vars

\* C7: a game-phase-changed handled while the session phase is Start or Lobby
\* does not fail but suspends on the storage-phase-changed event, and when
\* start-game sets the session phase to Running, the suspended handlers of
\* game-phase-changed are released: the event is delivered to each of them.
C7_GamePhaseWaitsForRunning ==
    [][/\ (/\ last'.op = "set_game_phase"
           /\ ~last'.resumed
           /\ phase \in {"Start", "Lobby"})
          => last'.outcome = "suspended"
       /\ (phase # "Running" /\ phase' = "Running")
          => \A i \in 1..Len(event_listener') :
                 event_listener'[i].task.kind = "set_game_phase"
                     => event_listener'[i].done]_vars

\* C8: after a completed set_game_phase the external phase is the new phase and
\* the internal phase is Shopping if the new phase is the one the local role
\* acts in (the attacker in Attacker, the defender in Defender), Idle otherwise.
C8_PhasesAfterSetGamePhase ==
    [][(last'.op = "set_game_phase" /\ last'.outcome = "ok")
       => LET new_phase == GAME_PHASE_MAP[last'.arg]
              role == RoleGet(game_state'.roles, game_state'.actor_connection_id)
              acting ==
                  /\ role.exists
                  /\ \/ role.type = "attacker" /\ new_phase = Attacker
                     \/ role.type = "defender" /\ new_phase = Defender
          IN /\ game_state'.external_phase = new_phase
             /\ game_state'.internal_phase = IF acting THEN "Shopping" ELSE "Idle"]_vars

\* C8's case: the defender was told the Attacker phase and idles
C8_Witness ==
    /\ last.op = "set_game_phase"
    /\ last.outcome = "ok"
    /\ last.arg = "Attack"
    /\ get_player_role(game_state).type = "defender"
    /\ game_state.external_phase = Attacker
    /\ game_state.internal_phase = "Idle"

\* C9: a completed set_game_phase enqueues ChooseAction when the new phase is
\* InitDraw; else, when it is the local role's turn, ShoppingPhase on turn 1 with
\* the equipment shop, PlayCard on turn 1 without it and ChooseAction on a later
\* turn; and nothing when it is not the local role's turn.
C9_InteractionAfterSetGamePhase ==
    [][(last'.op = "set_game_phase" /\ last'.outcome = "ok")
       => LET new_phase == GAME_PHASE_MAP[last'.arg]
              role == RoleGet(game_state'.roles, game_state'.actor_connection_id)
              acting ==
                  /\ role.exists
                  /\ \/ role.type = "attacker" /\ new_phase = Attacker
                     \/ role.type = "defender" /\ new_phase = Defender
              shop == lobby'.equipment_shop_mode > 0
              expected ==
                  IF new_phase = InitDraw THEN <<"CHOOSE_ACTION">>
                  ELSE IF ~acting THEN <<>>
                  ELSE IF game_state'.turn > 1 THEN <<"CHOOSE_ACTION">>
                  ELSE IF shop THEN <<"SHOPPING_PHASE">>
                  ELSE <<"PLAY_CARD">>
          IN interaction_buffer' = interaction_buffer \o expected]_vars

\* C9's case: on a later turn the local role's phase began and the caller is
\* asked to choose an action
C9_Witness ==
    /\ last.op = "set_game_phase"
    /\ last.outcome = "ok"
    /\ last.arg = "Attack"
    /\ get_player_role(game_state).type = "attacker"
    /\ game_state.turn > 1
    /\ interaction_buffer # <<>>
    /\ interaction_buffer[Len(interaction_buffer)] = "CHOOSE_ACTION"

\* C10: a handled actions-received appends the new actions to the hand and
\* publishes hand-changed, and it enqueues one interaction exactly if it is the
\* local role's turn: ShoppingPhase with the equipment shop, PlayCard without.
C10_ActionsReceived ==
    [][(last'.op = "add_new_actions_to_hand" /\ last'.outcome = "ok")
       => LET role == RoleGet(game_state'.roles, game_state'.actor_connection_id)
              current == game_state'.external_phase
              acting ==
                  /\ role.exists
                  /\ \/ role.type = "attacker" /\ current = Attacker
                     \/ role.type = "defender" /\ current = Defender
              shop == lobby'.equipment_shop_mode > 0
              expected ==
                  IF ~acting THEN <<>>
                  ELSE IF shop THEN <<"SHOPPING_PHASE">>
                  ELSE <<"PLAY_CARD">>
          IN /\ game_state'.hand = game_state.hand \o NewActions
             /\ \E i \in 1..Len(last'.events) : last'.events[i] = HAND_CHANGED
             /\ interaction_buffer' = interaction_buffer \o expected]_vars

\* C10's case: new actions arrived in the local role's phase of a game with
\* the equipment shop
C10_Witness ==
    /\ last.op = "add_new_actions_to_hand"
    /\ last.outcome = "ok"
    /\ get_player_role(game_state).type = "defender"
    /\ game_state.external_phase = Defender
    /\ lobby.equipment_shop_mode > 0
    /\ Len(game_state.hand) > Len(NewActions)
    /\ interaction_buffer[Len(interaction_buffer)] = "SHOPPING_PHASE"

\* C11: when next_interaction_type returns ChooseAction, the snapshot holds a
\* pending offer (a selection amount > 0 and a non-empty choice list), whatever
\* the order of offers, turn changes, phase changes and selection_choose calls.
C11_ChooseActionHasOffer ==
    [][(/\ last'.op = "next_interaction_type"
        /\ last'.outcome = "ok"
        /\ last'.ret = "CHOOSE_ACTION")
       => /\ game_state'.selection_amount > 0
          /\ game_state'.selection_choices # <<>>]_vars

\* C12: the interaction queue is first-in first-out and loses nothing: a new
\* session starts with CreateOrJoinLobby alone, a next_interaction_type call that
\* returns takes the oldest request and returns it, every other step only
\* appends, and a call that ends in TimeoutError has taken no request.
C12_QueueFifoLossless ==
    [][LET holding == \E i \in DOMAIN event_listener :
                          event_listener[i].task.kind = "next_interaction_type"
       IN /\ last.op = "init" => interaction_buffer = <<"CREATE_OR_JOIN_LOBBY">>
          /\ (last'.op = "next_interaction_type" /\ last'.outcome = "ok" /\ ~holding)
             => /\ interaction_buffer # <<>>
                /\ last'.ret = Head(interaction_buffer)
                /\ interaction_buffer' = Tail(interaction_buffer)
          /\ (last'.op = "next_interaction_type" /\ last'.outcome = "ok" /\ holding)
             => /\ \E i \in DOMAIN event_listener :
                       /\ event_listener[i].task.kind = "next_interaction_type"
                       /\ last'.ret = event_listener[i].task.s
                /\ interaction_buffer' = interaction_buffer
          /\ last'.op # "next_interaction_type"
             => /\ Len(interaction_buffer') >= Len(interaction_buffer)
                /\ SubSeq(interaction_buffer', 1, Len(interaction_buffer))
                       = interaction_buffer
          /\ (last'.op = "next_interaction_type" /\ last'.outcome = "TimeoutError")
             => /\ ~holding
                /\ interaction_buffer' = interaction_buffer]_vars

\* C13: buy_equipment and finish_shopping fail and send nothing unless the
\* internal phase is Shopping, and a call of either that returns without error
\* has sent its command, set the internal phase to Playing and enqueued exactly
\* one PlayCard request.
C13_ShoppingCalls ==
    [][(last'.op \in {"buy_equipment", "finish_shopping"})
       => LET shopping == /\ game_state.exists
                          /\ game_state.internal_phase = "Shopping"
              command == IF last'.op = "buy_equipment" THEN "buy_equipment"
                         ELSE "shopping_finished"
          IN /\ ~shopping => (last'.outcome # "ok" /\ last'.sent = <<>>)
             /\ last'.outcome = "ok"
                => /\ last'.sent = <<command>>
                   /\ game_state'.internal_phase = "Playing"
                   /\ interaction_buffer' = Append(interaction_buffer, "PLAY_CARD")]_vars

\* C14: the selection amount and the choice list of the snapshot are set and
\* cleared together: no step changes the emptiness of one without the other,
\* and no state has a positive selection amount with an empty choice list.
C14_SelectionSetTogether ==
    /\ game_state.selection_amount > 0 => game_state.selection_choices # <<>>
    /\ game_state.selection_choices # <<>> => game_state.selection_amount > 0

\* C15: handling game_ended with a snapshot sets the session phase to Ended,
\* records the end state on the snapshot, publishes the phase change and then
\* the game-ended event, and enqueues exactly one End request; without a
\* snapshot it raises and changes nothing.
C15_GameEnded ==
    [][(last'.op = "game_ended")
       => IF game_state.exists
          THEN /\ last'.outcome = "ok"
               /\ phase' = "Ended"
               /\ game_state'.end_state = last'.arg
               /\ last'.events = <<GAME_STORAGE_PHASE_CHANGED, GAME_ENDED>>
               /\ interaction_buffer' = Append(interaction_buffer, "END")
          ELSE /\ last'.outcome = "RuntimeError"
               /\ last'.events = <<>>
               /\ UNCHANGED <<phase, lobby, actor_connection_id, game_state,
                              offer_received, interaction_buffer, event_listener>>]_vars

C17_ErrorLeavesAndCloses ==
    [][(last'.op = "error")
       => /\ last'.outcome = "ok"
          /\ IF phase # "Start"
             THEN /\ last'.sent = <<"leave_game", None>>
                  /\ interaction_buffer' = Append(interaction_buffer, "END")
             ELSE /\ last'.sent = <<>>
                  /\ interaction_buffer' = interaction_buffer]_vars

C17_Witness ==
    /\ last.op = "error"
    /\ phase = "Running"
    /\ last.sent = <<"leave_game", None>>
    /\ Len(interaction_buffer) > 0
    /\ interaction_buffer[Len(interaction_buffer)] = "END"

C19_ListenerReleased ==
    [][(last'.op = "await_event" /\ last'.resumed)
       => \E i \in DOMAIN event_listener :
              /\ event_listener' = SubSeq(event_listener, 1, i - 1)
                                     \o SubSeq(event_listener, i + 1, Len(event_listener))
              /\ IF event_listener[i].done
                 THEN /\ last'.outcome = "ok"
                      /\ last'.ret = event_listener[i].data
                 ELSE /\ last'.outcome = "TimeoutError"
                      /\ last'.ret \in {"lobby_changed", "scenario_changed",
                                        "lobby_changed, scenario_changed",
                                        "scenario_changed, lobby_changed"}
                      /\ (LOBBY_CHANGED \in event_listener[i].events)
                             = (last'.ret \notin {"scenario_changed"})
                      /\ (SCENARIO_CHANGED \in event_listener[i].events)
                             = (last'.ret \notin {"lobby_changed"})]_vars

C19_Witness ==
    /\ last.op = "await_event"
    /\ last.resumed
    /\ last.outcome = "TimeoutError"
    /\ last.ret \in {"lobby_changed, scenario_changed",
                     "scenario_changed, lobby_changed"}
    /\ Len(event_listener) = 1
    /\ event_listener[1].events = {LOBBY_CHANGED, SCENARIO_CHANGED}

\* C20: awaiters are independent: when an event is published once, every task
\* suspended in await_event on that event receives the payload.
C20_AllAwaitersReceive ==
    [][(last'.op = "dispatch_event" /\ last'.outcome = "ok")
       => /\ Len(event_listener') = Len(event_listener)
          /\ \A i \in DOMAIN event_listener :
                 (last'.arg.event \in event_listener[i].events /\ ~event_listener[i].done)
                 => /\ event_listener'[i].done
                    /\ event_listener'[i].data = last'.arg.data]_vars

\* C21: delivery to a waiter happens once and without a race: a publication
\* that comes after a waiter's result was set and before that waiter has
\* resumed and released its listener does not deliver to it again and does not
\* make the publisher fail.
C21_DeliveredOnce ==
    [][(last'.op = "dispatch_event")
       => /\ last'.outcome = "ok"
          /\ Len(event_listener') = Len(event_listener)
          /\ \A i \in DOMAIN event_listener :
                 event_listener[i].done => event_listener'[i] = event_listener[i]]_vars

C23_UnparsableDropped ==
    [][(last'.op = "interpret" /\ last'.arg = "unparsable")
       => /\ listening_job' = "running"
          /\ UNCHANGED <<phase, lobby, actor_connection_id, game_state,
                         offer_received, interaction_buffer, event_listener, caller>>]_vars

\* C24: a message whose event is not in the catalog is ignored: the session is
\* unchanged, no handler runs, and the interpreter goes on with the messages
\* that follow.
C24_UnknownIgnored ==
    [][(last'.op = "interpret" /\ last'.arg = "unknown")
       => /\ listening_job' = "running"
          /\ last'.outcome = "ok"
          /\ last'.events = <<>>
          /\ last'.sent = <<>>
          /\ UNCHANGED <<phase, lobby, actor_connection_id, game_state,
                         offer_received, interaction_buffer, event_listener, caller>>]_vars

C24_Witness ==
    /\ last.op = "interpret"
    /\ last.arg = "unknown"
    /\ phase = "Running"
    /\ listening_job = "running"

\* C25: the snapshot changes by replacement only: the hand and the board of a
\* snapshot object that the caller read still read the same after any later
\* handler has run.
C25_ObservedSnapshotKept ==
    observed.exists
    => /\ observed.reads_hand = observed.hand
       /\ observed.reads_board = observed.board

\* C26: a full game-state message handled in Running, whose roles hold the local
\* connection id, replaces the snapshot: afterwards its roles, hand, board and
\* pending selection are those of the message.
C26_GameStateReplaced ==
    [][(/\ last'.op = "update_game_state"
        /\ phase = "Running"
        /\ actor_connection_id # None
        /\ RoleGet(last'.arg.roles, actor_connection_id).exists)
       => LET self_actor == RoleGet(last'.arg.roles, actor_connection_id)
          IN /\ last'.outcome = "ok"
             /\ game_state'.roles = last'.arg.roles
             /\ game_state'.hand = self_actor.actions
             /\ game_state'.equipment = self_actor.equipment
             /\ game_state'.assets_on_board = self_actor.visible_assets \o self_actor.assets
             /\ game_state'.selection_amount = last'.arg.amount_selection]_vars

\* C27: the board holds at most one asset per id in every state, and revealing
\* an asset whose id is on the board leaves the board as it is.
C27_OneAssetPerId ==
    \A i, j \in DOMAIN game_state.assets_on_board :
        game_state.assets_on_board[i] = game_state.assets_on_board[j] => i = j

C27_Witness ==
    /\ last.op = "update_assets"
    /\ last.outcome = "ok"
    /\ last.arg.revealed = <<1>>
    /\ last.arg.hidden = <<>>
    /\ game_state.assets_on_board = <<1, 2>>

\* C28: hiding an asset id that is not on the board fails and leaves the board
\* as it is; hiding an id that is on the board once removes that entry and no
\* other.
C28_HideAsset ==
    [][(last'.op = "update_assets" /\ last'.arg.revealed = <<>>
        /\ Len(last'.arg.hidden) = 1)
       => LET board == game_state.assets_on_board
              asset_id == last'.arg.hidden[1]
              at == {i \in DOMAIN board : board[i] = asset_id}
          IN /\ at = {} => /\ last'.outcome = "RuntimeError"
                           /\ game_state'.assets_on_board = board
             /\ Cardinality(at) = 1
                => /\ last'.outcome = "ok"
                   /\ \E i \in at :
                          game_state'.assets_on_board =
                              SubSeq(board, 1, i - 1) \o SubSeq(board, i + 1, Len(board))]_vars

C28_Witness ==
    /\ last.op = "update_assets"
    /\ last.outcome = "ok"
    /\ last.arg.revealed = <<>>
    /\ last.arg.hidden = <<1>>
    /\ game_state.assets_on_board = <<2>>

elements(list) == {list[i] : i \in DOMAIN list}

\* C30 as stated: the candidates are the (action id, support id, equipment id)
\* triples of each main action in hand, each support action in hand or 0 and
\* each non-permanent equipment or 0, and nothing else; the hand of the one
\* main action 7 with no equipment gives exactly (7, 0, 0).
C30_CandidatesById ==
    last.op = "_get_all_action_combinatinations" =>
        LET hand == game_state.hand
            equipment == game_state.equipment
            mains == {a \in elements(hand) : card_type(a) = "main"}
            supports == {a \in elements(hand) : card_type(a) = "support"} \cup {0}
            equipments ==
                {e \in elements(equipment) : equipment_type(e) \notin perm_eq} \cup {0}
        IN /\ elements(last.ret) = mains \X supports \X equipments
           /\ hand = <<7>> /\ equipment = <<>> => last.ret = << <<7, 0, 0>> >>

\* C30, amended: the candidates are triples of positions, each once: the
\* 0-based position in hand of a main action, the 1-based position in hand of
\* a support action or 0, and the 1-based position among the equipment of a
\* non-permanent equipment or 0; every such triple is a candidate and nothing
\* else is; the hand of the one main action 7 with no equipment gives exactly
\* (0, 0, 0).
C30_CandidatesByPosition ==
    last.op = "_get_all_action_combinatinations" =>
        LET hand == game_state.hand
            equipment == game_state.equipment
            mains == {i - 1 : i \in {j \in DOMAIN hand : card_type(hand[j]) = "main"}}
            supports == {j \in DOMAIN hand : card_type(hand[j]) = "support"} \cup {0}
            equipments ==
                {k \in DOMAIN equipment : equipment_type(equipment[k]) \notin perm_eq}
                    \cup {0}
        IN /\ elements(last.ret) = mains \X supports \X equipments
           /\ Cardinality(elements(last.ret)) = Len(last.ret)
           /\ hand = <<7>> /\ equipment = <<>> => last.ret = << <<0, 0, 0>> >>

C30_Witness ==
    /\ last.op = "_get_all_action_combinatinations"
    /\ game_state.hand = <<7>>
    /\ game_state.equipment = <<>>
    /\ last.ret = << <<0, 0, 0>> >>

\* C31: when a lobby-info message replaces an existing lobby, scenario-changed
\* is published if and only if the scenario of the message differs from the
\* scenario of the lobby it replaces; the same scenario publishes none.
C31_ScenarioChangedIffDiffers ==
    [][(/\ last'.op = "set_lobby_information"
        /\ phase \in {"Start", "Lobby"}
        /\ lobby.exists)
       => ((\E i \in DOMAIN last'.events : last'.events[i] = SCENARIO_CHANGED)
              <=> lobby.scenario # last'.arg.scenario)]_vars

\* the players a lobby holds
players_in(l) == Cardinality({slot \in Slots : l.players[slot] # NoPlayer})

\* C32: wait_for_players(amount), called in the session phase Lobby with
\* amount > 0, returns exactly when the lobby holds at least amount players:
\* no call stays waiting for changed players in a lobby that holds amount
\* players, and a call that returns after waiting returns to such a lobby.
C32_WaitForPlayers ==
    [][/\ \A i \in DOMAIN event_listener' :
              (/\ event_listener'[i].task.kind = "wait_for_players"
               /\ ~event_listener'[i].done
               /\ phase' = "Lobby")
              => players_in(lobby') < event_listener'[i].task.step
       /\ (/\ last'.op = "wait_for_players"
           /\ last'.resumed
           /\ last'.outcome = "ok")
          => \E i \in DOMAIN event_listener :
                 /\ event_listener[i].task.kind = "wait_for_players"
                 /\ event_listener[i].done
                 /\ players_in(lobby') >= event_listener[i].task.step]_vars

\* a type decodes a value fully: int a number, str a number or a string, a
\* List type a list whose every element its element type decodes
decodes(message, dtype) ==
    LET one(atom, t) ==
            \/ t = "int" /\ atom = "int"
            \/ t = "str" /\ atom \in {"int", "text"}
            \/ t = "Equipment" /\ atom = "equipment"
    IN IF message.list
       THEN /\ dtype \in {"List[int]", "List[str]", "List[Equipment]"}
            /\ \A i \in DOMAIN message.elems : one(message.elems[i], list_args(dtype))
       ELSE one(message.elems[1], dtype)

\* C33: for a field declared as Options the parser yields the value as the
\* first declared type that fully decodes it decodes it; if no declared type
\* decodes the value, parsing fails with an error and yields neither null nor
\* an undecoded value.
C33_FirstCandidateOrError ==
    last.op = "parse_message" =>
        LET field == last.arg.field
            message == last.arg.message
            fitting == {k \in DOMAIN field.dtypes : decodes(message, field.dtypes[k])}
        IN IF fitting = {}
           THEN last.outcome = "ValueError"
           ELSE /\ last.outcome = "ok"
                /\ last.ret.parsed
                /\ \A k \in fitting : last.ret.by <= k
                /\ last.ret.by \in fitting
                /\ Len(last.ret.value) = Len(message.elems)
                /\ \A i \in DOMAIN message.elems :
                       last.ret.value[i][2] = message.elems[i]

\* C34: handling a got-kicked event closes the session: the close signal is
\* sent to the transport and an End interaction is enqueued (which releases a
\* caller that waits in next_interaction_type).
C34_KickedCloses ==
    [][last'.op = "got_kicked"
       => /\ last'.sent = <<None>>
          /\ interaction_buffer' = Append(interaction_buffer, "END")]_vars

\* C35: every handler suspended on the session phase is released by the phase
\* change: when start-game sets the session phase to Running, each of the
\* suspended handlers has the event delivered, and none of them is left to end
\* by its timeout while the session phase is Running.
C35_AllPhaseWaitersReleased ==
    [][/\ (phase # "Running" /\ phase' = "Running")
          => \A i \in DOMAIN event_listener' :
                 event_listener'[i].task.kind \in PhaseWaiters
                     => event_listener'[i].done
       /\ (/\ last'.op \in PhaseWaiters
           /\ last'.resumed
           /\ last'.outcome = "TimeoutError")
          => phase # "Running"]_vars

\* C36: inbound updates take effect in arrival order. An earlier
\* game-phase-changed handler was suspended waiting for start-game, a later
\* game-phase-changed message is handled without suspending, and then the
\* earlier handler runs on and completes, leaving no handler waiting: the
\* external phase is the phase of the later message, the last one received.
C36_LastPhaseMessageWins ==
    [][(/\ last.op = "set_game_phase"
        /\ ~last.resumed
        /\ last.outcome = "ok"
        /\ last'.op = "set_game_phase"
        /\ last'.resumed
        /\ last'.outcome = "ok"
        /\ event_listener' = <<>>)
       => game_state'.external_phase = GAME_PHASE_MAP[last.arg]]_vars

\* C37: in every reachable state a snapshot exists if and only if the session
\* phase is Running or Ended.
C37_SnapshotIffRunningOrEnded ==
    game_state.exists <=> phase \in {"Running", "Ended"}


\* C38: End is final in the interaction queue: an End interaction in the queue
\* is the last element of the queue, no interaction is enqueued after it.
C38_EndIsLast ==
    \A i \in DOMAIN interaction_buffer :
        interaction_buffer[i] = "END" => i = Len(interaction_buffer)


\* C39: whenever a snapshot exists, the connection id stored in the snapshot
\* equals the session's own connection id.
C39_SnapshotHasSessionIdentity ==
    game_state.exists => game_state.actor_connection_id = actor_connection_id

\* C40: an asset-changes message is applied all-or-nothing: when hiding one of
\* its ids fails, the board is exactly as it was before the message.
C40_AssetChangesAllOrNothing ==
    [][(last'.op = "update_assets" /\ last'.outcome = "RuntimeError")
       => game_state'.assets_on_board = game_state.assets_on_board]_vars

====
